---- MODULE Spec2Model ----
(***************************************************************************)
(* The game-session and sync engine of the Soccer Stat Tracker:            *)
(* GameStats (the live session, the list of saved games and its            *)
(* reconciliation with the Firestore collection through gameService) and   *)
(* GameHistory (the edit form of a saved game).                            *)
(*                                                                         *)
(* Every handler is one action.  An await on a gameService call splits a   *)
(* handler in two: the step that issues the call, which captures the       *)
(* values the handler closes over (savedGames and the session fields of    *)
(* the render it was created in), and the step that runs the continuation  *)
(* once the promise has settled.  The steps in between are the store's:    *)
(* one per attempt of withRetry.                                           *)
(***************************************************************************)
EXTENDS Integers, Sequences, FiniteSets, TLC

(***************************************************************************)
(* Bounds of the model.                                                    *)
(***************************************************************************)
\* commits (Save Game clicks that go through) in one run
MaxCommits == 2
\* goals per side entered in the live session or in the edit form
MaxGoals == 1
\* load() calls in one run, the one of the mount included
MaxLoads == 3
\* Save Changes clicks in one run
MaxEdits == 1
\* Delete Game clicks in one run
MaxDeletes == 1
\* Clear All clicks in one run
MaxClears == 1
\* remote calls that fail or lose their acknowledgement in one run
MaxFaults == 3
\* gameService calls in flight at the same time
MaxInFlight == 2
\* advances of the wall clock in a run
MaxAdvances == 5
\* invalid half durations handed to Timers in a run
MaxInvalid == 1
\* presses of the + button of one stat counter in a game
MaxCount == 1

(***************************************************************************)
(* Program constants.                                                      *)
(***************************************************************************)
maxRetries == 3
MAX_GOALS_PER_GAME == 20

(***************************************************************************)
(* State.                                                                  *)
(***************************************************************************)
VARIABLES
  \* GameStats: game info and live session
  playerName,       \* useState("")
  opponent,         \* useState("")
  gameType,         \* useState("League")
  gameNotes,        \* useState("")
  date,             \* useState(today)
  halftimeSeconds,  \* game-clock position reported by the timer
  ourGoals,         \* useState([])
  theirGoals,       \* useState([])
  isAddingGoal,     \* useState(false)
  stats,            \* the stat counters, one useState(0) each
  \* GameStats: saved games and sync state
  savedGames,       \* useState([]): the in-memory list
  localStore,       \* localStorage entry soccerStatsSavedGames_<pin>
  isLoading,        \* useState(true)
  isSaving,         \* useState(false)
  syncStatus,       \* useState('idle')
  networkStatus,    \* useState(navigator.onLine)
  lastAlert,        \* the last alert() shown to the user
  \* the Firestore collection and the id sources
  remote,           \* documents of the soccerGames collection
  nextDoc,          \* auto-ids handed out by addDoc so far, plus one
  nextLocal,        \* Date.now() values used for local_ ids so far, plus one
  storedPin,        \* localStorage entry soccerApp_userPin
  \* calls in flight
  saveOp,           \* saveGame awaiting gameService.saveGame
  loads,            \* loadGamesFromFirebase calls awaiting gameService.loadGames
  updOp,            \* handleGameUpdate awaiting gameService.updateGame
  delOp,            \* handleGameDelete awaiting gameService.deleteGame
  clrOp,            \* clearAllData awaiting gameService.clearAllGames
  \* GameHistory
  editingGame,      \* useState(null): 0 stands for null
  editFormData,     \* useState({})
  \* history of the run
  nextGid,          \* commits started so far, plus one
  committed,        \* commits that produced a record
  userRemoved,      \* commits whose record the user asked to delete or clear
  budget,           \* clicks and faults used so far
  \* the wall clock
  now,              \* Date.now(), in milliseconds since the mount
  \* GameStats: timer configuration and the player time reported to it
  halftimeMinutes,  \* useState(30)
  playerMinutes,    \* useState(0): seconds reported by PlayerTimer
  \* Timers (the half timer)
  seconds,          \* useState(0)
  isRunning,        \* useState(false)
  currentHalf,      \* useState(1)
  startTimeRef,     \* useRef(null)
  accumulatedRef,   \* useRef(0)
  \* PlayerTimer
  ptSeconds,        \* useState(0)
  ptIsRunning,      \* useState(false)
  ptStartTimeRef,   \* useRef(null)
  ptAccumulatedRef, \* useRef(0)
  \* history of the timers
  ptRan,            \* milliseconds PlayerTimer has spent running since its reset
  timerBudget       \* clock advances and invalid durations so far

sessionVars == <<playerName, date, opponent, gameType, halftimeSeconds,
                 ourGoals, theirGoals, isAddingGoal, stats, gameNotes>>
cacheVars   == <<savedGames, localStore>>
uiVars      == <<isLoading, isSaving, syncStatus, networkStatus, lastAlert>>
storeVars   == <<remote, nextDoc>>
opVars      == <<saveOp, loads, updOp, delOp, clrOp>>
editVars    == <<editingGame, editFormData>>
histVars    == <<nextGid, committed, userRemoved, budget>>
halfVars    == <<seconds, isRunning, currentHalf, startTimeRef,
                 accumulatedRef>>
playerVars  == <<ptSeconds, ptIsRunning, ptStartTimeRef, ptAccumulatedRef,
                 playerMinutes, ptRan>>
timerVars   == <<now, halftimeMinutes, halfVars, playerVars, timerBudget>>
gameVars    == <<playerName, date, opponent, gameType, ourGoals, theirGoals,
                 isAddingGoal, stats, gameNotes>>
appVars     == <<cacheVars, uiVars, storeVars, nextLocal, storedPin, opVars,
                 editVars, histVars>>
vars == <<sessionVars, cacheVars, uiVars, storeVars, nextLocal, storedPin,
          opVars, editVars, histVars, timerVars>>

(***************************************************************************)
(* Values.                                                                 *)
(***************************************************************************)
Names == {"Ann"}
\* the userPin prop of GameStats: the PIN App held when it mounted GameStats
userPin == "1111"
Pins == {"1111", "2222"}
\* a game object without a userPin field
NoPin == ""
Today == "2026-01-10"

StatNames == {"goalsLeft", "goalsRight", "shotsLeft", "shotsRight", "assists",
              "passCompletions", "cornersTaken", "cornerConversions",
              "offensive1v1Attempts", "offensive1v1Won",
              "defensive1v1Attempts", "defensive1v1Won", "fouls", "cards",
              "gkShotsSaved", "gkGoalsAgainst", "freeKicksTaken",
              "freeKicksMade", "defensiveTackles", "defensiveFailures",
              "defensiveDisruption", "defensiveDistribution"}

ZeroStats == [s \in StatNames |-> 0]

NoId == <<"none", 0>>
LocalId(n) == <<"local_", n>>
DocId(n) == <<"doc", n>>

\* id.startsWith('local_')
startsWithLocal(id) == id[1] = "local_"

\* game.id && !game.id.startsWith('local_')
RemoteBacked(game) == game.id # NoId /\ ~startsWithLocal(game.id)

Idle == [pc |-> "idle"]
\* a ref holding null, and one holding the Date.now() of a start
NullStamp == [set |-> FALSE, at |-> 0]
Stamp(t) == [set |-> TRUE, at |-> t]
NoForm == [open |-> FALSE]

\* formatTime: M:SS, kept as the pair of its two numbers
formatTime(totalSeconds) == <<totalSeconds \div 60, totalSeconds % 60>>

\* parseTimeToSeconds of GameHistory, on the pair that stands for M:SS
parseTimeToSeconds(timeStr) == timeStr[1] * 60 + timeStr[2]

\* the Win / Loss / Tie ladder of saveGame and of saveEdit
GameResult(ourGoalCount, theirGoalCount) ==
  IF ourGoalCount > theirGoalCount THEN "Win"
  ELSE IF ourGoalCount < theirGoalCount THEN "Loss"
  ELSE "Tie"

\* validateStats of GameStats: the warnings of a set of counters
validateStats(st) ==
  {w \in {"Left foot goals exceed shots", "Right foot goals exceed shots",
          "Corner conversions exceed corners taken",
          "Offensive 1v1 won exceed attempts",
          "Defensive 1v1 won exceed attempts",
          "Free kicks made exceed attempts",
          "Defensive failures exceed tackles",
          "Defensive distribution exceed disruption"} :
     \/ w = "Left foot goals exceed shots" /\ st["goalsLeft"] > st["shotsLeft"]
     \/ w = "Right foot goals exceed shots" /\ st["goalsRight"] > st["shotsRight"]
     \/ w = "Corner conversions exceed corners taken"
          /\ st["cornerConversions"] > st["cornersTaken"]
     \/ w = "Offensive 1v1 won exceed attempts"
          /\ st["offensive1v1Won"] > st["offensive1v1Attempts"]
     \/ w = "Defensive 1v1 won exceed attempts"
          /\ st["defensive1v1Won"] > st["defensive1v1Attempts"]
     \/ w = "Free kicks made exceed attempts"
          /\ st["freeKicksMade"] > st["freeKicksTaken"]
     \/ w = "Defensive failures exceed tackles"
          /\ st["defensiveFailures"] > st["defensiveTackles"]
     \/ w = "Defensive distribution exceed disruption"
          /\ st["defensiveDistribution"] > st["defensiveDisruption"]}

\* (num / den * 100).toFixed(1) for den > 0, as the number of tenths of a
\* percent: the nearest tenth, a half rounded away from 0
toFixed1(num, den) ==
  LET abs == IF num < 0 THEN 0 - num ELSE num
      tenths == (2000 * abs + den) \div (2 * den)
  IN IF num < 0 THEN 0 - tenths ELSE tenths

\* the goalConversionRate text of saveGame and of saveEdit: '0%', or the
\* toFixed(1) text followed by '%'
goalConversionRate(totalGoals, totalShots) ==
  IF totalShots > 0 THEN <<"toFixed(1)%", toFixed1(totalGoals, totalShots)>>
  ELSE <<"0%">>

\* the newGame object of saveGame, before it has an id; gid names the commit
NewGame(gid) ==
  [id |-> NoId, userPin |-> NoPin, gid |-> gid, date |-> date,
   playerName |-> playerName,
   opponent |-> opponent, gameType |-> gameType, gameNotes |-> gameNotes,
   playerMinutesPlayed |-> formatTime(playerMinutes),
   playerSecondsPlayed |-> playerMinutes,
   ourGoals |-> Len(ourGoals), theirGoals |-> Len(theirGoals),
   gameResult |-> GameResult(Len(ourGoals), Len(theirGoals)),
   goalHistory |-> [our |-> ourGoals, their |-> theirGoals],
   stats |-> stats,
   totalGoals |-> stats["goalsLeft"] + stats["goalsRight"],
   totalShots |-> stats["shotsLeft"] + stats["shotsRight"],
   goalConversionRate |->
     goalConversionRate(stats["goalsLeft"] + stats["goalsRight"],
                        stats["shotsLeft"] + stats["shotsRight"])]

\* validateGameData, had 'date' been left out of its required fields
MissingRequiredNameOnly(gameData) == gameData.playerName = ""

\* validateGameData: the required fields
MissingRequired(gameData) == gameData.date = "" \/ gameData.playerName = ""

\* validateGameData: a numeric field that is NaN or negative becomes 0
SanitizeNumber(n) == IF n < 0 THEN 0 ELSE n

\* validateGameData: the sanitized copy
validateGameData(gameData) ==
  [gameData EXCEPT !.ourGoals = SanitizeNumber(@),
                   !.theirGoals = SanitizeNumber(@),
                   !.stats = [f \in StatNames |-> SanitizeNumber(@[f])]]

\* withRetry without the fail-fast on permission-denied
withRetryNoFailFast(op, code) ==
  IF op.attempt = maxRetries
  THEN [op EXCEPT !.pc = "failed", !.code = code]
  ELSE [op EXCEPT !.attempt = @ + 1, !.code = code]

\* withRetry: what the catch of a failed attempt does to the call
withRetry(op, code) ==
  IF op.attempt = maxRetries \/ code = "permission-denied"
  THEN [op EXCEPT !.pc = "failed", !.code = code]
  ELSE [op EXCEPT !.attempt = @ + 1, !.code = code]

RECURSIVE NewestFirst(_)
\* loadGames: the documents ordered by createdAt descending
NewestFirst(docs) ==
  IF docs = {} THEN <<>>
  ELSE LET d == CHOOSE x \in docs : \A y \in docs : y.id[2] <= x.id[2]
       IN <<d>> \o NewestFirst(docs \ {d})

\* the positions of a list but one
RemoveAt(s, i) == SubSeq(s, 1, i - 1) \o SubSeq(s, i + 1, Len(s))

\* Array.findIndex(g => g === game); 0 stands for -1
FindIndex(s, game) ==
  IF \E i \in 1..Len(s) : s[i] = game
  THEN CHOOSE i \in 1..Len(s) : s[i] = game /\ \A j \in 1..(i - 1) : s[j] # game
  ELSE 0

Gids(s) == {s[i].gid : i \in 1..Len(s)}
Ids(s) == {s[i].id : i \in 1..Len(s)}

\* the gameService calls that have not settled and resumed their handler
InFlight ==
  Len(loads) + Cardinality({op \in {"save", "update", "delete", "clear"} :
                             \/ op = "save" /\ saveOp.pc # "idle"
                             \/ op = "update" /\ updOp.pc # "idle"
                             \/ op = "delete" /\ delOp.pc # "idle"
                             \/ op = "clear" /\ clrOp.pc # "idle"})

Spend(what) == [budget EXCEPT ![what] = @ + 1]

(***************************************************************************)
(* Init: the component has mounted for a PIN, its list is empty and the    *)
(* load of the mount effect is in flight.                                  *)
(***************************************************************************)
InitTimers ==
  /\ now = 0
  /\ halftimeMinutes = 30
  /\ playerMinutes = 0
  /\ seconds = 0
  /\ isRunning = FALSE
  /\ currentHalf = 1
  /\ startTimeRef = NullStamp
  /\ accumulatedRef = 0
  /\ ptSeconds = 0
  /\ ptIsRunning = FALSE
  /\ ptStartTimeRef = NullStamp
  /\ ptAccumulatedRef = 0
  /\ ptRan = 0
  /\ timerBudget = [advances |-> 0, invalid |-> 0]

Init ==
  /\ InitTimers
  /\ playerName = ""
  /\ date = Today
  /\ opponent = ""
  /\ gameType = "League"
  /\ gameNotes = ""
  /\ halftimeSeconds = 0
  /\ ourGoals = <<>>
  /\ theirGoals = <<>>
  /\ isAddingGoal = FALSE
  /\ stats = ZeroStats
  /\ savedGames = <<>>
  /\ localStore = [present |-> FALSE, games |-> <<>>]
  /\ isLoading = TRUE
  /\ isSaving = FALSE
  /\ syncStatus = "syncing"
  /\ networkStatus = TRUE
  /\ lastAlert = ""
  /\ remote = {}
  /\ nextDoc = 1
  /\ nextLocal = 1
  /\ saveOp = Idle
  /\ storedPin = userPin
  /\ loads = <<[pc |-> "pending", attempt |-> 1, code |-> "", pin |-> userPin,
                games |-> <<>>]>>
  /\ updOp = Idle
  /\ delOp = Idle
  /\ clrOp = Idle
  /\ editingGame = 0
  /\ editFormData = NoForm
  /\ nextGid = 1
  /\ committed = {}
  /\ userRemoved = {}
  /\ budget = [loads |-> 1, edits |-> 0, updates |-> 0, deletes |-> 0,
               clears |-> 0,
               faults |-> 0]

(***************************************************************************)
(* The live session.                                                       *)
(***************************************************************************)
SetPlayerName(name) ==
  /\ ~isLoading
  /\ playerName # name
  /\ playerName' = name
  /\ UNCHANGED <<date, opponent, gameType, gameNotes, halftimeSeconds,
                 ourGoals, theirGoals, isAddingGoal, stats, cacheVars, uiVars, storeVars, nextLocal, opVars,
                 editVars, histVars>>
  /\ UNCHANGED <<timerVars, storedPin>>

\* the date input: a day picked, or the input cleared
Dates == {"", Today}

setDate(value) ==
  /\ ~isLoading
  /\ date # value
  /\ date' = value
  /\ UNCHANGED <<playerName, opponent, gameType, gameNotes, halftimeSeconds,
                 ourGoals, theirGoals, isAddingGoal, stats, cacheVars, uiVars,
                 storeVars, nextLocal, opVars, editVars, histVars>>
  /\ UNCHANGED <<timerVars, storedPin>>

\* the Opponent field, the Game Type select and the Game Notes text area
setOpponent(name) ==
  /\ ~isLoading
  /\ opponent # name
  /\ opponent' = name
  /\ UNCHANGED <<playerName, date, gameType, gameNotes, halftimeSeconds,
                 ourGoals, theirGoals, isAddingGoal, stats, appVars,
                 timerVars>>

setGameType(type) ==
  /\ ~isLoading
  /\ gameType # type
  /\ gameType' = type
  /\ UNCHANGED <<playerName, date, opponent, gameNotes, halftimeSeconds,
                 ourGoals, theirGoals, isAddingGoal, stats, appVars,
                 timerVars>>

setGameNotes(text) ==
  /\ ~isLoading
  /\ gameNotes # text
  /\ gameNotes' = text
  /\ UNCHANGED <<playerName, date, opponent, gameType, halftimeSeconds,
                 ourGoals, theirGoals, isAddingGoal, stats, appVars,
                 timerVars>>

\* the goal counts explored: short lists, and lists from one goal under the
\* cap to MaxGoals goals over it
GoalsExplored(n) ==
  \/ n < MaxGoals
  \/ n >= MAX_GOALS_PER_GAME - 1 /\ n < MAX_GOALS_PER_GAME + MaxGoals

Goal == [time |-> formatTime(halftimeSeconds),
         minute |-> halftimeSeconds \div 60,
         timestamp |-> now]

addOurGoal ==
  /\ ~isLoading
  /\ ~(isAddingGoal \/ Len(ourGoals) >= MAX_GOALS_PER_GAME)
  /\ GoalsExplored(Len(ourGoals))
  /\ isAddingGoal' = TRUE
  /\ ourGoals' = Append(ourGoals, Goal)
  /\ UNCHANGED <<playerName, date, opponent, gameType, gameNotes,
                 halftimeSeconds, theirGoals, stats,
                 cacheVars, uiVars, storeVars, nextLocal, opVars, editVars,
                 histVars>>
  /\ UNCHANGED <<timerVars, storedPin>>

addTheirGoal ==
  /\ ~isLoading
  /\ ~(isAddingGoal \/ Len(theirGoals) >= MAX_GOALS_PER_GAME)
  /\ GoalsExplored(Len(theirGoals))
  /\ isAddingGoal' = TRUE
  /\ theirGoals' = Append(theirGoals, Goal)
  /\ UNCHANGED <<playerName, date, opponent, gameType, gameNotes,
                 halftimeSeconds, ourGoals, stats,
                 cacheVars, uiVars, storeVars, nextLocal, opVars, editVars,
                 histVars>>
  /\ UNCHANGED <<timerVars, storedPin>>

\* the + button of a stat counter
increment(stat) ==
  /\ ~isLoading
  /\ stats[stat] < MaxCount
  /\ stats' = [stats EXCEPT ![stat] = @ + 1]
  /\ UNCHANGED <<playerName, date, opponent, gameType, gameNotes,
                 halftimeSeconds, ourGoals, theirGoals,
                 isAddingGoal, appVars, timerVars>>

\* the - button of a stat counter, without the test for 0
decrementUnchecked(stat) ==
  /\ ~isLoading
  /\ stats' = [stats EXCEPT ![stat] = @ - 1]
  /\ UNCHANGED <<playerName, date, opponent, gameType, gameNotes,
                 halftimeSeconds, ourGoals, theirGoals,
                 isAddingGoal, appVars, timerVars>>

\* the - button of a stat counter
decrement(stat) ==
  /\ ~isLoading
  /\ stats' = [stats EXCEPT ![stat] = IF @ > 0 THEN @ - 1 ELSE 0]
  /\ UNCHANGED <<playerName, date, opponent, gameType, gameNotes,
                 halftimeSeconds, ourGoals, theirGoals,
                 isAddingGoal, appVars, timerVars>>

\* prevGoals.slice(1): the undo that drops the oldest goal
DropFirst(prevGoals) == SubSeq(prevGoals, 2, Len(prevGoals))

\* prevGoals.slice(0, -1)
DropLast(prevGoals) == SubSeq(prevGoals, 1, Len(prevGoals) - 1)

\* Undo Our Goal, rendered while our side has a goal
removeLastOurGoal ==
  /\ ~isLoading
  /\ ourGoals # <<>>
  /\ IF isAddingGoal THEN UNCHANGED ourGoals
     ELSE ourGoals' = DropLast(ourGoals)
  /\ UNCHANGED <<playerName, date, opponent, gameType, gameNotes,
                 halftimeSeconds, theirGoals, isAddingGoal, stats, appVars,
                 timerVars>>

\* Undo Their Goal, rendered while their side has a goal
removeLastTheirGoal ==
  /\ ~isLoading
  /\ theirGoals # <<>>
  /\ IF isAddingGoal THEN UNCHANGED theirGoals
     ELSE theirGoals' = DropLast(theirGoals)
  /\ UNCHANGED <<playerName, date, opponent, gameType, gameNotes,
                 halftimeSeconds, ourGoals, isAddingGoal, stats, appVars,
                 timerVars>>

\* setTimeout(() => setIsAddingGoal(false), 500)
GoalLockTimeout ==
  /\ isAddingGoal
  /\ isAddingGoal' = FALSE
  /\ UNCHANGED <<playerName, date, opponent, gameType, gameNotes,
                 halftimeSeconds, ourGoals, theirGoals,
                 stats, cacheVars, uiVars, storeVars, nextLocal, opVars,
                 editVars, histVars>>
  /\ UNCHANGED <<timerVars, storedPin>>

(***************************************************************************)
(* saveGame and gameService.saveGame.                                      *)
(***************************************************************************)
\* the reset of the per-game counters that ends both branches of saveGame
\* the reset of the session with the notes left in the text area
ResetSessionKeepsNotes ==
  /\ stats' = ZeroStats
  /\ ourGoals' = <<>>
  /\ theirGoals' = <<>>
  /\ gameNotes' = gameNotes

\* 'Reset stats' of saveGame, in its try and in its catch
ResetSession ==
  /\ stats' = ZeroStats
  /\ ourGoals' = <<>>
  /\ theirGoals' = <<>>
  /\ gameNotes' = ""

\* the try branch of saveGame after the await: the stored game heads the list
SaveSucceeded(savedGame, sg) ==
  /\ savedGames' = <<savedGame>> \o sg
  /\ localStore' = [present |-> TRUE, games |-> <<savedGame>> \o sg]
  /\ syncStatus' = "synced"
  /\ ResetSession
  /\ isSaving' = FALSE
  /\ committed' = committed \cup {savedGame.gid}
  /\ UNCHANGED <<lastAlert, nextLocal>>

\* the catch branch of saveGame without the local copy
SaveFallbackNotCached(game, sg) ==
  /\ syncStatus' = "error"
  /\ lastAlert' = "Save failed"
  /\ savedGames' = sg
  /\ localStore' = [present |-> TRUE, games |-> sg]
  /\ nextLocal' = nextLocal + 1
  /\ ResetSession
  /\ isSaving' = FALSE
  /\ committed' = committed \cup {game.gid}

\* the catch branch of saveGame: the game is kept under a local_ id
SaveFallback(game, sg) ==
  LET newGame == [game EXCEPT !.id = LocalId(nextLocal)] IN
  /\ syncStatus' = "error"
  /\ lastAlert' = "Save failed"
  /\ savedGames' = <<newGame>> \o sg
  /\ localStore' = [present |-> TRUE, games |-> <<newGame>> \o sg]
  /\ nextLocal' = nextLocal + 1
  /\ ResetSession
  /\ isSaving' = FALSE
  /\ committed' = committed \cup {game.gid}

\* saveGame without the return after a declined confirm
saveGameUngated(confirm) ==
  /\ ~isLoading
  /\ ~isSaving
  /\ nextGid <= MaxCommits
  /\ InFlight < MaxInFlight
  /\ IF FALSE
     THEN UNCHANGED vars
     ELSE LET newGame == NewGame(nextGid) IN
          /\ nextGid' = nextGid + 1
          /\ IF MissingRequired(newGame)
             THEN /\ SaveFallback(newGame, savedGames)
                  /\ UNCHANGED saveOp
             ELSE /\ isSaving' = TRUE
                  /\ syncStatus' = "syncing"
                  /\ saveOp' = [pc |-> "pending", attempt |-> 1, code |-> "",
                                calls |-> 0, pin |-> storedPin,
                                game |-> newGame,
                                sg |-> savedGames, saved |-> newGame]
                  /\ UNCHANGED <<ourGoals, theirGoals, stats, gameNotes, cacheVars,
                                 lastAlert, nextLocal, committed>>
          /\ UNCHANGED <<playerName, date, opponent, gameType,
                         halftimeSeconds, isAddingGoal,
                         isLoading, networkStatus, storeVars, loads, updOp,
                         delOp, clrOp, editVars, userRemoved, budget>>
  /\ UNCHANGED <<timerVars, storedPin>>

\* Save Game: validateStats and its confirm, then gameService.saveGame, which
\* rejects at once when validateGameData finds a required field missing
saveGame(confirm) ==
  /\ ~isLoading
  /\ ~isSaving
  /\ nextGid <= MaxCommits
  /\ InFlight < MaxInFlight
  /\ IF validateStats(stats) # {} /\ ~confirm
     THEN UNCHANGED vars
     ELSE LET newGame == NewGame(nextGid) IN
          /\ nextGid' = nextGid + 1
          /\ IF MissingRequired(newGame)
             THEN /\ SaveFallback(newGame, savedGames)
                  /\ UNCHANGED saveOp
             ELSE /\ isSaving' = TRUE
                  /\ syncStatus' = "syncing"
                  /\ saveOp' = [pc |-> "pending", attempt |-> 1, code |-> "",
                                calls |-> 0, pin |-> storedPin,
                                game |-> newGame,
                                sg |-> savedGames, saved |-> newGame]
                  /\ UNCHANGED <<ourGoals, theirGoals, stats, gameNotes, cacheVars,
                                 lastAlert, nextLocal, committed>>
          /\ UNCHANGED <<playerName, date, opponent, gameType,
                         halftimeSeconds, isAddingGoal,
                         isLoading, networkStatus, storeVars, loads, updOp,
                         delOp, clrOp, editVars, userRemoved, budget>>
  /\ UNCHANGED <<timerVars, storedPin>>

\* where('userPin', '==', userPin): the documents of a PIN
PinDocs(pin) == {d \in remote : d.userPin = pin}

\* the document addDoc writes for the call in flight
AddedDoc ==
  [validateGameData(saveOp.game) EXCEPT !.id = DocId(nextDoc),
                                        !.userPin = saveOp.pin]

\* addDoc resolves: the document is stored under a fresh id
AddDocOk ==
  /\ saveOp.pc = "pending"
  /\ remote' = remote \cup {AddedDoc}
  /\ nextDoc' = nextDoc + 1
  /\ saveOp' = [saveOp EXCEPT !.pc = "ok", !.saved = AddedDoc,
                              !.calls = @ + 1]
  /\ UNCHANGED <<sessionVars, cacheVars, uiVars, nextLocal, loads, updOp,
                 delOp, clrOp, editVars, histVars>>
  /\ UNCHANGED <<timerVars, storedPin>>

\* addDoc rejects although the write reached the store
AddDocLostAck ==
  /\ saveOp.pc = "pending"
  /\ budget.faults < MaxFaults
  /\ remote' = remote \cup {AddedDoc}
  /\ nextDoc' = nextDoc + 1
  /\ saveOp' = withRetry([saveOp EXCEPT !.calls = @ + 1], "unavailable")
  /\ budget' = Spend("faults")
  /\ UNCHANGED <<sessionVars, cacheVars, uiVars, nextLocal, loads, updOp,
                 delOp, clrOp, editVars, nextGid, committed, userRemoved>>
  /\ UNCHANGED <<timerVars, storedPin>>

\* addDoc rejects and nothing was written
AddDocFail(code) ==
  /\ saveOp.pc = "pending"
  /\ budget.faults < MaxFaults
  /\ saveOp' = withRetry([saveOp EXCEPT !.calls = @ + 1], code)
  /\ budget' = Spend("faults")
  /\ UNCHANGED <<sessionVars, cacheVars, uiVars, storeVars, nextLocal, loads,
                 updOp, delOp, clrOp, editVars, nextGid, committed,
                 userRemoved>>
  /\ UNCHANGED <<timerVars, storedPin>>

\* saveGame resumes after gameService.saveGame resolved
SaveResolve ==
  /\ saveOp.pc = "ok"
  /\ SaveSucceeded(saveOp.saved, saveOp.sg)
  /\ saveOp' = Idle
  /\ UNCHANGED <<playerName, date, opponent, gameType, halftimeSeconds,
                 isAddingGoal, isLoading,
                 networkStatus, storeVars, loads, updOp, delOp, clrOp,
                 editVars, nextGid, userRemoved, budget>>
  /\ UNCHANGED <<timerVars, storedPin>>

\* saveGame resumes in its catch after gameService.saveGame rejected
SaveReject ==
  /\ saveOp.pc = "failed"
  /\ SaveFallback(saveOp.game, saveOp.sg)
  /\ saveOp' = Idle
  /\ UNCHANGED <<playerName, date, opponent, gameType, halftimeSeconds,
                 isAddingGoal, isLoading,
                 networkStatus, storeVars, loads, updOp, delOp, clrOp,
                 editVars, nextGid, userRemoved, budget>>
  /\ UNCHANGED <<timerVars, storedPin>>

(***************************************************************************)
(* loadGamesFromFirebase and gameService.loadGames.                        *)
(***************************************************************************)
\* loadGamesFromFirebase up to its await
StartLoad ==
  /\ budget.loads < MaxLoads
  /\ InFlight < MaxInFlight
  /\ syncStatus' = "syncing"
  /\ loads' = Append(loads, [pc |-> "pending", attempt |-> 1, code |-> "",
                             pin |-> storedPin, games |-> <<>>])
  /\ budget' = Spend("loads")

\* window 'online', had it only recorded the status
handleOnlineStatusOnly ==
  /\ ~networkStatus
  /\ networkStatus' = TRUE
  /\ UNCHANGED <<sessionVars, cacheVars, isLoading, isSaving, syncStatus,
                 lastAlert, storeVars, nextLocal, opVars, editVars, histVars>>
  /\ UNCHANGED <<timerVars, storedPin>>

\* window 'online': handleOnline
handleOnline ==
  /\ ~networkStatus
  /\ networkStatus' = TRUE
  /\ StartLoad
  /\ UNCHANGED <<sessionVars, cacheVars, isLoading, isSaving, lastAlert,
                 storeVars, nextLocal, saveOp, updOp, delOp, clrOp, editVars,
                 nextGid, committed, userRemoved>>
  /\ UNCHANGED <<timerVars, storedPin>>

\* window 'offline': handleOffline
handleOffline ==
  /\ networkStatus
  /\ networkStatus' = FALSE
  /\ UNCHANGED <<sessionVars, cacheVars, isLoading, isSaving, syncStatus,
                 lastAlert, storeVars, nextLocal, opVars, editVars, histVars>>
  /\ UNCHANGED <<timerVars, storedPin>>

\* PIN entry submitted in a second tab that was opened before this one had a
\* PIN: its handlePinSubmit replaces the stored PIN
handlePinSubmit(pin) ==
  /\ storedPin = userPin
  /\ pin # storedPin
  /\ storedPin' = pin
  /\ UNCHANGED <<sessionVars, cacheVars, uiVars, storeVars, nextLocal, opVars,
                 editVars, histVars, timerVars>>

\* getDocs resolves with the documents the collection holds now
GetDocsOk(i) ==
  /\ i \in 1..Len(loads)
  /\ loads[i].pc = "pending"
  /\ loads' = [loads EXCEPT ![i] = [@ EXCEPT !.pc = "ok",
                         !.games = NewestFirst(PinDocs(loads[i].pin))]]
  /\ UNCHANGED <<sessionVars, cacheVars, uiVars, storeVars, nextLocal, saveOp,
                 updOp, delOp, clrOp, editVars, histVars>>
  /\ UNCHANGED <<timerVars, storedPin>>

\* getDocs rejects
GetDocsFail(i, code) ==
  /\ i \in 1..Len(loads)
  /\ loads[i].pc = "pending"
  /\ budget.faults < MaxFaults
  /\ loads' = [loads EXCEPT ![i] = withRetry(@, code)]
  /\ budget' = Spend("faults")
  /\ UNCHANGED <<sessionVars, cacheVars, uiVars, storeVars, nextLocal, saveOp,
                 updOp, delOp, clrOp, editVars, nextGid, committed,
                 userRemoved>>
  /\ UNCHANGED <<timerVars, storedPin>>

\* loadGamesFromFirebase resumes after loadGames resolved
LoadResolve(i) ==
  /\ i \in 1..Len(loads)
  /\ loads[i].pc = "ok"
  /\ savedGames' = loads[i].games
  /\ syncStatus' = "synced"
  /\ isLoading' = FALSE
  /\ loads' = RemoveAt(loads, i)
  /\ UNCHANGED <<sessionVars, localStore, isSaving, networkStatus, lastAlert,
                 storeVars, nextLocal, saveOp, updOp, delOp, clrOp, editVars,
                 histVars>>
  /\ UNCHANGED <<timerVars, storedPin>>

\* loadGamesFromFirebase resumes in its catch: the localStorage fallback
LoadReject(i) ==
  /\ i \in 1..Len(loads)
  /\ loads[i].pc = "failed"
  /\ syncStatus' = "error"
  /\ savedGames' = IF localStore.present THEN localStore.games ELSE savedGames
  /\ isLoading' = FALSE
  /\ loads' = RemoveAt(loads, i)
  /\ UNCHANGED <<sessionVars, localStore, isSaving, networkStatus, lastAlert,
                 storeVars, nextLocal, saveOp, updOp, delOp, clrOp, editVars,
                 histVars>>
  /\ UNCHANGED <<timerVars, storedPin>>

(***************************************************************************)
(* GameHistory: the edit form.                                             *)
(***************************************************************************)
\* the counters startEditing copies into the form
EditStatNames == {"goalsLeft", "goalsRight", "shotsLeft", "shotsRight",
                  "assists", "passCompletions", "cornersTaken",
                  "cornerConversions", "fouls", "cards", "gkShotsSaved",
                  "gkGoalsAgainst"}

\* the form is rendered for the row editingGame of the list shown
FormShown ==
  /\ ~isLoading
  /\ editFormData.open
  /\ editingGame \in 1..Len(savedGames)

\* the form data startEditing copies from a row
EditFormOf(game) ==
  [open |-> TRUE, date |-> game.date,
   playerName |-> game.playerName,
   opponent |-> game.opponent,
   playerMinutesPlayed |-> game.playerMinutesPlayed,
   gameNotes |-> game.gameNotes,
   ourGoals |-> game.ourGoals,
   theirGoals |-> game.theirGoals,
   stats |-> [f \in EditStatNames |-> game.stats[f]],
   goalHistory |-> game.goalHistory]

\* Edit Game on row gameIndex
startEditing(gameIndex) ==
  /\ ~isLoading
  /\ gameIndex \in 1..Len(savedGames)
  /\ editingGame # gameIndex
  /\ budget.edits < MaxEdits
  /\ editFormData' = EditFormOf(savedGames[gameIndex])
  /\ editingGame' = gameIndex
  /\ budget' = Spend("edits")
  /\ UNCHANGED <<sessionVars, cacheVars, uiVars, storeVars, nextLocal, opVars,
                 nextGid, committed, userRemoved>>
  /\ UNCHANGED <<timerVars, storedPin>>

cancelEditing ==
  /\ FormShown
  /\ editingGame' = 0
  /\ editFormData' = NoForm
  /\ UNCHANGED <<sessionVars, cacheVars, uiVars, storeVars, nextLocal, opVars,
                 histVars>>
  /\ UNCHANGED <<timerVars, storedPin>>

\* the goal the edit form adds
EditGoal == [time |-> formatTime(0), minute |-> 0, timestamp |-> now]

\* addOurGoal of the edit form
editAddOurGoal ==
  /\ FormShown
  /\ GoalsExplored(Len(editFormData.goalHistory.our))
  /\ editFormData' =
       [editFormData EXCEPT !.goalHistory.our = Append(@, EditGoal),
                            !.ourGoals = Len(editFormData.goalHistory.our) + 1]
  /\ UNCHANGED <<sessionVars, cacheVars, uiVars, storeVars, nextLocal, opVars,
                 editingGame, histVars>>
  /\ UNCHANGED <<timerVars, storedPin>>

\* addTheirGoal of the edit form
editAddTheirGoal ==
  /\ FormShown
  /\ GoalsExplored(Len(editFormData.goalHistory.their))
  /\ editFormData' =
       [editFormData EXCEPT !.goalHistory.their = Append(@, EditGoal),
                            !.theirGoals = Len(editFormData.goalHistory.their) + 1]
  /\ UNCHANGED <<sessionVars, cacheVars, uiVars, storeVars, nextLocal, opVars,
                 editingGame, histVars>>
  /\ UNCHANGED <<timerVars, storedPin>>

removeOurGoal(index) ==
  /\ FormShown
  /\ index \in 1..Len(editFormData.goalHistory.our)
  /\ editFormData' =
       [editFormData EXCEPT !.goalHistory.our = RemoveAt(@, index),
                            !.ourGoals = Len(editFormData.goalHistory.our) - 1]
  /\ UNCHANGED <<sessionVars, cacheVars, uiVars, storeVars, nextLocal, opVars,
                 editingGame, histVars>>
  /\ UNCHANGED <<timerVars, storedPin>>

removeTheirGoal(index) ==
  /\ FormShown
  /\ index \in 1..Len(editFormData.goalHistory.their)
  /\ editFormData' =
       [editFormData EXCEPT !.goalHistory.their = RemoveAt(@, index),
                            !.theirGoals = Len(editFormData.goalHistory.their) - 1]
  /\ UNCHANGED <<sessionVars, cacheVars, uiVars, storeVars, nextLocal, opVars,
                 editingGame, histVars>>
  /\ UNCHANGED <<timerVars, storedPin>>

\* a number typed into a numeric field of the edit form
handleInputChange(field, value) ==
  /\ FormShown
  /\ field \in EditStatNames
  /\ editFormData.stats[field] # value
  /\ editFormData' = [editFormData EXCEPT !.stats[field] = value]
  /\ UNCHANGED <<sessionVars, cacheVars, uiVars, storeVars, nextLocal, opVars,
                 editingGame, histVars>>
  /\ UNCHANGED <<timerVars, storedPin>>

\* the times typed into a goal's time field
GoalTimes == {formatTime(0), formatTime(1530)}

\* the time field of a goal, with the minute of the goal left as it was
updateGoalTimeKeepsMinute(team, goalIndex, newTime) ==
  /\ FormShown
  /\ goalIndex \in 1..Len(editFormData.goalHistory[team])
  /\ editFormData.goalHistory[team][goalIndex].time # newTime
  /\ editFormData' =
       [editFormData EXCEPT !.goalHistory[team][goalIndex].time = newTime]
  /\ UNCHANGED <<sessionVars, cacheVars, uiVars, storeVars, nextLocal, opVars,
                 editingGame, histVars>>
  /\ UNCHANGED <<timerVars, storedPin>>

\* the time field of goal goalIndex of a team in the edit form
updateGoalTime(team, goalIndex, newTime) ==
  /\ FormShown
  /\ goalIndex \in 1..Len(editFormData.goalHistory[team])
  /\ editFormData.goalHistory[team][goalIndex].time # newTime
  /\ editFormData' =
       [editFormData EXCEPT
          !.goalHistory[team][goalIndex].time = newTime,
          !.goalHistory[team][goalIndex].minute =
             parseTimeToSeconds(newTime) \div 60]
  /\ UNCHANGED <<sessionVars, cacheVars, uiVars, storeVars, nextLocal, opVars,
                 editingGame, histVars>>
  /\ UNCHANGED <<timerVars, storedPin>>

\* validateStats of saveEdit: three of the warnings
editValidateStats(st) ==
  {w \in {"Left foot goals exceed shots", "Right foot goals exceed shots",
          "Corner conversions exceed corners taken"} :
     \/ w = "Left foot goals exceed shots" /\ st["goalsLeft"] > st["shotsLeft"]
     \/ w = "Right foot goals exceed shots" /\ st["goalsRight"] > st["shotsRight"]
     \/ w = "Corner conversions exceed corners taken"
          /\ st["cornerConversions"] > st["cornersTaken"]}

\* updatedGame with the result of the row left as it was
UpdatedGameStaleResult(base, form) ==
  [base EXCEPT !.date = form.date,
               !.playerName = form.playerName,
               !.opponent = form.opponent,
               !.gameNotes = form.gameNotes,
               !.playerMinutesPlayed = form.playerMinutesPlayed,
               !.playerSecondsPlayed =
                  parseTimeToSeconds(form.playerMinutesPlayed),
               !.goalHistory = form.goalHistory,
               !.stats = [f \in StatNames |->
                            IF f \in EditStatNames THEN form.stats[f]
                            ELSE base.stats[f]],
               !.ourGoals = Len(form.goalHistory.our),
               !.theirGoals = Len(form.goalHistory.their)]

\* updatedGame with the rate of a game without shots written as 0.0%
UpdatedGameRateText(base, form) ==
  [base EXCEPT !.date = form.date,
               !.playerName = form.playerName,
               !.opponent = form.opponent,
               !.gameNotes = form.gameNotes,
               !.playerMinutesPlayed = form.playerMinutesPlayed,
               !.playerSecondsPlayed =
                  parseTimeToSeconds(form.playerMinutesPlayed),
               !.goalHistory = form.goalHistory,
               !.stats = [f \in StatNames |->
                            IF f \in EditStatNames THEN form.stats[f]
                            ELSE base.stats[f]],
               !.ourGoals = Len(form.goalHistory.our),
               !.theirGoals = Len(form.goalHistory.their),
               !.totalGoals = form.stats["goalsLeft"] + form.stats["goalsRight"],
               !.totalShots = form.stats["shotsLeft"] + form.stats["shotsRight"],
               !.goalConversionRate =
                  <<"toFixed(1)%",
                    IF form.stats["shotsLeft"] + form.stats["shotsRight"] > 0
                    THEN toFixed1(
                           form.stats["goalsLeft"] + form.stats["goalsRight"],
                           form.stats["shotsLeft"] + form.stats["shotsRight"])
                    ELSE 0>>,
               !.gameResult = GameResult(Len(form.goalHistory.our),
                                         Len(form.goalHistory.their))]

\* the updatedGame object of saveEdit: the row shown spread under the form
UpdatedGame(base, form) ==
  [base EXCEPT !.date = form.date,
               !.playerName = form.playerName,
               !.opponent = form.opponent,
               !.gameNotes = form.gameNotes,
               !.playerMinutesPlayed = form.playerMinutesPlayed,
               !.playerSecondsPlayed =
                  parseTimeToSeconds(form.playerMinutesPlayed),
               !.goalHistory = form.goalHistory,
               !.stats = [f \in StatNames |->
                            IF f \in EditStatNames THEN form.stats[f]
                            ELSE base.stats[f]],
               !.ourGoals = Len(form.goalHistory.our),
               !.theirGoals = Len(form.goalHistory.their),
               !.totalGoals = form.stats["goalsLeft"] + form.stats["goalsRight"],
               !.totalShots = form.stats["shotsLeft"] + form.stats["shotsRight"],
               !.goalConversionRate =
                  goalConversionRate(
                    form.stats["goalsLeft"] + form.stats["goalsRight"],
                    form.stats["shotsLeft"] + form.stats["shotsRight"]),
               !.gameResult = GameResult(Len(form.goalHistory.our),
                                         Len(form.goalHistory.their))]

(***************************************************************************)
(* handleGameUpdate and gameService.updateGame.                            *)
(***************************************************************************)
\* the try branch of handleGameUpdate after the await
UpdateMirrored(sg, gameIndex, updatedGame) ==
  LET newSavedGames ==
        [sg EXCEPT ![gameIndex] = [updatedGame EXCEPT !.id = sg[gameIndex].id]]
  IN /\ savedGames' = newSavedGames
     /\ localStore' = [present |-> TRUE, games |-> newSavedGames]
     /\ UNCHANGED lastAlert

\* the catch branch of handleGameUpdate without the local mirror
UpdateFallbackNotMirrored(sg, gameIndex, updatedGame) ==
  /\ lastAlert' = "Failed to update game"
  /\ savedGames' = sg
  /\ localStore' = [present |-> TRUE, games |-> sg]

\* the catch branch of handleGameUpdate
UpdateFallback(sg, gameIndex, updatedGame) ==
  LET newSavedGames == [sg EXCEPT ![gameIndex] = updatedGame]
  IN /\ lastAlert' = "Failed to update game"
     /\ savedGames' = newSavedGames
     /\ localStore' = [present |-> TRUE, games |-> newSavedGames]

\* Save Changes: saveEdit, then handleGameUpdate up to its await
saveEdit(confirm) ==
  /\ FormShown
  /\ updOp.pc = "idle"
  /\ InFlight < MaxInFlight
  /\ IF editValidateStats(editFormData.stats) # {} /\ ~confirm
     THEN UNCHANGED vars
     ELSE LET base == savedGames[editingGame]
              gameIndex == FindIndex(savedGames, base)
              updatedGame == UpdatedGame(base, editFormData)
              game == savedGames[gameIndex]
          IN /\ IF ~RemoteBacked(game)
                THEN /\ UpdateMirrored(savedGames, gameIndex, updatedGame)
                     /\ UNCHANGED updOp
                ELSE IF MissingRequired(updatedGame)
                THEN /\ UpdateFallback(savedGames, gameIndex, updatedGame)
                     /\ UNCHANGED updOp
                ELSE /\ updOp' = [pc |-> "pending", attempt |-> 1, code |-> "",
                                  gameIndex |-> gameIndex,
                                  pin |-> storedPin,
                                  game |-> updatedGame, id |-> game.id,
                                  sg |-> savedGames]
                     /\ UNCHANGED <<cacheVars, lastAlert>>
             /\ editingGame' = 0
             /\ editFormData' = NoForm
             /\ budget' = Spend("updates")
             /\ UNCHANGED <<sessionVars, isLoading, isSaving, syncStatus,
                            networkStatus, storeVars, nextLocal, saveOp, loads,
                            delOp, clrOp, nextGid, committed, userRemoved>>
  /\ UNCHANGED <<timerVars, storedPin>>

DocExists(id) == \E d \in remote : d.id = id

\* the collection after updateDoc wrote the validated fields
UpdatedRemote ==
  {d \in remote : d.id # updOp.id}
    \cup {[validateGameData(updOp.game) EXCEPT !.id = updOp.id,
                                               !.userPin = updOp.pin]}

\* updateDoc resolves
UpdateDocOk ==
  /\ updOp.pc = "pending"
  /\ DocExists(updOp.id)
  /\ remote' = UpdatedRemote
  /\ updOp' = [updOp EXCEPT !.pc = "ok"]
  /\ UNCHANGED <<sessionVars, cacheVars, uiVars, nextDoc, nextLocal, saveOp,
                 loads, delOp, clrOp, editVars, histVars>>
  /\ UNCHANGED <<timerVars, storedPin>>

\* updateDoc rejects although the write reached the store
UpdateDocLostAck ==
  /\ updOp.pc = "pending"
  /\ DocExists(updOp.id)
  /\ budget.faults < MaxFaults
  /\ remote' = UpdatedRemote
  /\ updOp' = withRetry(updOp, "unavailable")
  /\ budget' = Spend("faults")
  /\ UNCHANGED <<sessionVars, cacheVars, uiVars, nextDoc, nextLocal, saveOp,
                 loads, delOp, clrOp, editVars, nextGid, committed,
                 userRemoved>>
  /\ UNCHANGED <<timerVars, storedPin>>

\* updateDoc rejects and nothing was written
UpdateDocFail(code) ==
  /\ updOp.pc = "pending"
  /\ DocExists(updOp.id)
  /\ budget.faults < MaxFaults
  /\ updOp' = withRetry(updOp, code)
  /\ budget' = Spend("faults")
  /\ UNCHANGED <<sessionVars, cacheVars, uiVars, storeVars, nextLocal, saveOp,
                 loads, delOp, clrOp, editVars, nextGid, committed,
                 userRemoved>>
  /\ UNCHANGED <<timerVars, storedPin>>

\* updateDoc rejects because the document does not exist
UpdateDocNotFound ==
  /\ updOp.pc = "pending"
  /\ ~DocExists(updOp.id)
  /\ updOp' = withRetry(updOp, "not-found")
  /\ UNCHANGED <<sessionVars, cacheVars, uiVars, storeVars, nextLocal, saveOp,
                 loads, delOp, clrOp, editVars, histVars>>
  /\ UNCHANGED <<timerVars, storedPin>>

UpdateResolve ==
  /\ updOp.pc = "ok"
  /\ UpdateMirrored(updOp.sg, updOp.gameIndex, updOp.game)
  /\ updOp' = Idle
  /\ UNCHANGED <<sessionVars, isLoading, isSaving, syncStatus, networkStatus,
                 storeVars, nextLocal, saveOp, loads, delOp, clrOp, editVars,
                 histVars>>
  /\ UNCHANGED <<timerVars, storedPin>>

UpdateReject ==
  /\ updOp.pc = "failed"
  /\ UpdateFallback(updOp.sg, updOp.gameIndex, updOp.game)
  /\ updOp' = Idle
  /\ UNCHANGED <<sessionVars, isLoading, isSaving, syncStatus, networkStatus,
                 storeVars, nextLocal, saveOp, loads, delOp, clrOp, editVars,
                 histVars>>
  /\ UNCHANGED <<timerVars, storedPin>>

(***************************************************************************)
(* handleDelete, handleGameDelete and gameService.deleteGame.              *)
(***************************************************************************)
\* both branches of handleGameDelete filter the row out of the list
DeleteMirrored(sg, gameIndex) ==
  /\ savedGames' = RemoveAt(sg, gameIndex)
  /\ localStore' = [present |-> TRUE, games |-> RemoveAt(sg, gameIndex)]

\* Delete Game on row index, confirmed: handleDelete, then handleGameDelete
\* up to its await
handleDelete(index) ==
  /\ ~isLoading
  /\ index \in 1..Len(savedGames)
  /\ editingGame # index
  /\ delOp.pc = "idle"
  /\ budget.deletes < MaxDeletes
  /\ InFlight < MaxInFlight
  /\ LET game == savedGames[index]
         actualIndex == FindIndex(savedGames, game)
     IN /\ IF RemoteBacked(game)
           THEN /\ delOp' = [pc |-> "pending", attempt |-> 1, code |-> "",
                             gameIndex |-> actualIndex, id |-> game.id,
                             sg |-> savedGames]
                /\ UNCHANGED cacheVars
           ELSE /\ DeleteMirrored(savedGames, actualIndex)
                /\ UNCHANGED delOp
        /\ userRemoved' = userRemoved \cup {game.gid}
  /\ budget' = Spend("deletes")
  /\ UNCHANGED <<sessionVars, uiVars, storeVars, nextLocal, saveOp, loads,
                 updOp, clrOp, editVars, nextGid, committed>>
  /\ UNCHANGED <<timerVars, storedPin>>

\* deleteDoc resolves
DeleteDocOk ==
  /\ delOp.pc = "pending"
  /\ remote' = {d \in remote : d.id # delOp.id}
  /\ delOp' = [delOp EXCEPT !.pc = "ok"]
  /\ UNCHANGED <<sessionVars, cacheVars, uiVars, nextDoc, nextLocal, saveOp,
                 loads, updOp, clrOp, editVars, histVars>>
  /\ UNCHANGED <<timerVars, storedPin>>

\* deleteDoc rejects although the delete reached the store
DeleteDocLostAck ==
  /\ delOp.pc = "pending"
  /\ budget.faults < MaxFaults
  /\ remote' = {d \in remote : d.id # delOp.id}
  /\ delOp' = withRetry(delOp, "unavailable")
  /\ budget' = Spend("faults")
  /\ UNCHANGED <<sessionVars, cacheVars, uiVars, nextDoc, nextLocal, saveOp,
                 loads, updOp, clrOp, editVars, nextGid, committed,
                 userRemoved>>
  /\ UNCHANGED <<timerVars, storedPin>>

\* deleteDoc rejects and nothing was deleted
DeleteDocFail(code) ==
  /\ delOp.pc = "pending"
  /\ budget.faults < MaxFaults
  /\ delOp' = withRetry(delOp, code)
  /\ budget' = Spend("faults")
  /\ UNCHANGED <<sessionVars, cacheVars, uiVars, storeVars, nextLocal, saveOp,
                 loads, updOp, clrOp, editVars, nextGid, committed,
                 userRemoved>>
  /\ UNCHANGED <<timerVars, storedPin>>

DeleteResolve ==
  /\ delOp.pc = "ok"
  /\ DeleteMirrored(delOp.sg, delOp.gameIndex)
  /\ delOp' = Idle
  /\ UNCHANGED <<sessionVars, uiVars, storeVars, nextLocal, saveOp, loads,
                 updOp, clrOp, editVars, histVars>>
  /\ UNCHANGED <<timerVars, storedPin>>

DeleteReject ==
  /\ delOp.pc = "failed"
  /\ lastAlert' = "Failed to delete game"
  /\ DeleteMirrored(delOp.sg, delOp.gameIndex)
  /\ delOp' = Idle
  /\ UNCHANGED <<sessionVars, isLoading, isSaving, syncStatus, networkStatus,
                 storeVars, nextLocal, saveOp, loads, updOp, clrOp, editVars,
                 histVars>>
  /\ UNCHANGED <<timerVars, storedPin>>

(***************************************************************************)
(* clearAllData and gameService.clearAllGames.                             *)
(***************************************************************************)
\* Clear All, confirmed: clearAllData up to its await
clearAllData ==
  /\ ~isLoading
  /\ Len(savedGames) > 0
  /\ clrOp.pc = "idle"
  /\ budget.clears < MaxClears
  /\ InFlight < MaxInFlight
  /\ syncStatus' = "syncing"
  /\ clrOp' = [pc |-> "loading", attempt |-> 1, code |-> "",
               pin |-> storedPin, targets |-> {}]
  /\ userRemoved' = userRemoved \cup Gids(savedGames)
  /\ budget' = Spend("clears")
  /\ UNCHANGED <<sessionVars, cacheVars, isLoading, isSaving, networkStatus,
                 lastAlert, storeVars, nextLocal, saveOp, loads, updOp, delOp,
                 editVars, nextGid, committed>>
  /\ UNCHANGED <<timerVars, storedPin>>

\* the getDocs of clearAllGames resolves: one deleteGame per document
ClearGetDocsOk ==
  /\ clrOp.pc = "loading"
  /\ clrOp' = [clrOp EXCEPT !.pc = "deleting",
                            !.targets = {d.id : d \in PinDocs(clrOp.pin)}]
  /\ UNCHANGED <<sessionVars, cacheVars, uiVars, storeVars, nextLocal, saveOp,
                 loads, updOp, delOp, editVars, histVars>>
  /\ UNCHANGED <<timerVars, storedPin>>

\* the getDocs of clearAllGames rejects
ClearGetDocsFail(code) ==
  /\ clrOp.pc = "loading"
  /\ budget.faults < MaxFaults
  /\ clrOp' = IF clrOp.attempt = maxRetries \/ code = "permission-denied"
              THEN [clrOp EXCEPT !.pc = "failed", !.code = code]
              ELSE [clrOp EXCEPT !.attempt = @ + 1, !.code = code]
  /\ budget' = Spend("faults")
  /\ UNCHANGED <<sessionVars, cacheVars, uiVars, storeVars, nextLocal, saveOp,
                 loads, updOp, delOp, editVars, nextGid, committed,
                 userRemoved>>
  /\ UNCHANGED <<timerVars, storedPin>>

\* every deleteGame of Promise.all resolves
ClearDeleteAll ==
  /\ clrOp.pc = "deleting"
  /\ remote' = {d \in remote : d.id \notin clrOp.targets}
  /\ clrOp' = [clrOp EXCEPT !.pc = "ok"]
  /\ UNCHANGED <<sessionVars, cacheVars, uiVars, nextDoc, nextLocal, saveOp,
                 loads, updOp, delOp, editVars, histVars>>
  /\ UNCHANGED <<timerVars, storedPin>>

\* one deleteGame of Promise.all rejects after its retries; the documents
\* in deleted are those whose delete reached the store
ClearDeleteSome(deleted) ==
  /\ clrOp.pc = "deleting"
  /\ clrOp.targets # {}
  /\ deleted \subseteq clrOp.targets
  /\ budget.faults < MaxFaults
  /\ remote' = {d \in remote : d.id \notin deleted}
  /\ clrOp' = [clrOp EXCEPT !.pc = "failed", !.code = "unavailable"]
  /\ budget' = Spend("faults")
  /\ UNCHANGED <<sessionVars, cacheVars, uiVars, nextDoc, nextLocal, saveOp,
                 loads, updOp, delOp, editVars, nextGid, committed,
                 userRemoved>>
  /\ UNCHANGED <<timerVars, storedPin>>

\* the try branch of clearAllData after the await
ClearResolve ==
  /\ clrOp.pc = "ok"
  /\ savedGames' = <<>>
  /\ localStore' = [present |-> FALSE, games |-> <<>>]
  /\ syncStatus' = "synced"
  /\ clrOp' = Idle
  /\ UNCHANGED <<sessionVars, isLoading, isSaving, networkStatus, lastAlert,
                 storeVars, nextLocal, saveOp, loads, updOp, delOp, editVars,
                 histVars>>
  /\ UNCHANGED <<timerVars, storedPin>>

\* the catch branch of clearAllData, had it emptied the list as the try does
ClearRejectEmptiesCache ==
  /\ clrOp.pc = "failed"
  /\ syncStatus' = "error"
  /\ lastAlert' = "Failed to clear all games"
  /\ savedGames' = <<>>
  /\ localStore' = [present |-> FALSE, games |-> <<>>]
  /\ clrOp' = Idle
  /\ UNCHANGED <<sessionVars, isLoading, isSaving, networkStatus, storeVars,
                 nextLocal, saveOp, loads, updOp, delOp, editVars, histVars>>
  /\ UNCHANGED <<timerVars, storedPin>>

\* the catch branch of clearAllData
ClearReject ==
  /\ clrOp.pc = "failed"
  /\ syncStatus' = "error"
  /\ lastAlert' = "Failed to clear all games"
  /\ clrOp' = Idle
  /\ UNCHANGED <<sessionVars, cacheVars, isLoading, isSaving, networkStatus,
                 storeVars, nextLocal, saveOp, loads, updOp, delOp, editVars,
                 histVars>>
  /\ UNCHANGED <<timerVars, storedPin>>

(***************************************************************************)
(* The wall clock.                                                         *)
(***************************************************************************)
\* the time that passes between two events: half a second, a second, or one
\* second less than the shortest half
ClockSteps == {500, 1000, 1799000}

\* time passes; no callback runs
Advance(d) ==
  /\ timerBudget.advances < MaxAdvances
  /\ now' = now + d
  /\ ptRan' = IF ptIsRunning THEN ptRan + d ELSE ptRan
  /\ timerBudget' = [timerBudget EXCEPT !.advances = @ + 1]
  /\ UNCHANGED <<sessionVars, appVars, halftimeMinutes, halfVars, ptSeconds,
                 ptIsRunning, ptStartTimeRef, ptAccumulatedRef, playerMinutes>>

(***************************************************************************)
(* Timers: the half timer.                                                 *)
(***************************************************************************)
totalHalftimeSeconds == halftimeMinutes * 60
remainingSeconds ==
  IF totalHalftimeSeconds - seconds > 0 THEN totalHalftimeSeconds - seconds
  ELSE 0
isTimeUp == remainingSeconds = 0

\* totalGameSeconds, which the onTimeChange effect hands to GameStats
totalGameSeconds(half, minutes, secs) ==
  IF half = 1 THEN secs ELSE minutes * 60 + secs

\* Math.floor((Date.now() - startTimeRef.current) / 1000)
SecondsSince(stamp) == (now - stamp.at) \div 1000

startTimer ==
  /\ IF ~isRunning /\ ~isTimeUp
     THEN /\ isRunning' = TRUE
          /\ startTimeRef' = Stamp(now)
     ELSE UNCHANGED <<isRunning, startTimeRef>>
  /\ UNCHANGED <<sessionVars, appVars, now, halftimeMinutes, seconds,
                 currentHalf, accumulatedRef, playerVars, timerBudget>>

pauseTimer ==
  /\ IF isRunning
     THEN LET additionalTime == SecondsSince(startTimeRef)
              newTotal == accumulatedRef + additionalTime
          IN /\ accumulatedRef' = newTotal
             /\ seconds' = newTotal
             /\ isRunning' = FALSE
             /\ halftimeSeconds' =
                  totalGameSeconds(currentHalf, halftimeMinutes, newTotal)
     ELSE UNCHANGED <<accumulatedRef, seconds, isRunning, halftimeSeconds>>
  /\ UNCHANGED <<gameVars, appVars, now, halftimeMinutes, currentHalf,
                 startTimeRef, playerVars, timerBudget>>

\* what startSecondHalf and resetTimer have in common
ClockCleared ==
  /\ seconds' = 0
  /\ isRunning' = FALSE
  /\ accumulatedRef' = 0
  /\ startTimeRef' = NullStamp

\* Start 2nd Half offered throughout the first half
startSecondHalfAnytime ==
  /\ currentHalf = 1
  /\ currentHalf' = 2
  /\ ClockCleared
  /\ halftimeSeconds' = totalGameSeconds(2, halftimeMinutes, 0)
  /\ UNCHANGED <<gameVars, appVars, now, halftimeMinutes, playerVars,
                 timerBudget>>

\* the Start 2nd Half button, shown at the end of the first half
startSecondHalf ==
  /\ currentHalf = 1
  /\ isTimeUp
  /\ currentHalf' = 2
  /\ ClockCleared
  /\ halftimeSeconds' = totalGameSeconds(2, halftimeMinutes, 0)
  /\ UNCHANGED <<gameVars, appVars, now, halftimeMinutes, playerVars,
                 timerBudget>>

\* the reset without setCurrentHalf(1)
resetTimerKeepsHalf ==
  /\ ClockCleared
  /\ halftimeSeconds' = totalGameSeconds(currentHalf, halftimeMinutes, 0)
  /\ UNCHANGED <<gameVars, appVars, now, halftimeMinutes, currentHalf,
                 playerVars, timerBudget>>

resetTimer ==
  /\ currentHalf' = 1
  /\ ClockCleared
  /\ halftimeSeconds' = 0
  /\ UNCHANGED <<gameVars, appVars, now, halftimeMinutes, playerVars,
                 timerBudget>>

\* the tick without the stop at the end of the half
TickNoStop ==
  /\ isRunning
  /\ ~isTimeUp
  /\ LET elapsed == SecondsSince(startTimeRef)
         newTotal == accumulatedRef + elapsed
         cappedTotal == IF newTotal < totalHalftimeSeconds THEN newTotal
                        ELSE totalHalftimeSeconds
     IN /\ seconds' = cappedTotal
        /\ halftimeSeconds' =
             totalGameSeconds(currentHalf, halftimeMinutes, cappedTotal)
  /\ UNCHANGED <<gameVars, appVars, now, halftimeMinutes, currentHalf,
                 isRunning, startTimeRef, accumulatedRef, playerVars,
                 timerBudget>>

\* the callback of setInterval, which exists while isRunning && !isTimeUp
\* the interval callback, had it been held back while a save is in flight
TickWhenIdle ==
  /\ isRunning
  /\ ~isTimeUp
  /\ ~isSaving
  /\ LET elapsed == SecondsSince(startTimeRef)
         newTotal == accumulatedRef + elapsed
         cappedTotal == IF newTotal < totalHalftimeSeconds THEN newTotal
                        ELSE totalHalftimeSeconds
     IN /\ seconds' = cappedTotal
        /\ isRunning' = (cappedTotal < totalHalftimeSeconds)
        /\ halftimeSeconds' =
             totalGameSeconds(currentHalf, halftimeMinutes, cappedTotal)
  /\ UNCHANGED <<gameVars, appVars, now, halftimeMinutes, currentHalf,
                 startTimeRef, accumulatedRef, playerVars, timerBudget>>

Tick ==
  /\ isRunning
  /\ ~isTimeUp
  /\ LET elapsed == SecondsSince(startTimeRef)
         newTotal == accumulatedRef + elapsed
         cappedTotal == IF newTotal < totalHalftimeSeconds THEN newTotal
                        ELSE totalHalftimeSeconds
     IN /\ seconds' = cappedTotal
        /\ isRunning' = (cappedTotal < totalHalftimeSeconds)
        /\ halftimeSeconds' =
             totalGameSeconds(currentHalf, halftimeMinutes, cappedTotal)
  /\ UNCHANGED <<gameVars, appVars, now, halftimeMinutes, currentHalf,
                 startTimeRef, accumulatedRef, playerVars, timerBudget>>

\* the effect on [halftimeMinutes]: an invalid value is replaced by 30, and
\* the effect of the render that follows resets the timer
halftimeMinutesEffect(min) ==
  /\ halftimeMinutes' = (IF min < 1 \/ min > 90 THEN 30 ELSE min)
  /\ currentHalf' = 1
  /\ ClockCleared
  /\ halftimeSeconds' = 0

\* the options of the duration select
HalftimeOptions == {30, 35, 40, 45}

\* the duration select, had it never been disabled
setHalftimeMinutesEnabled(min) ==
  /\ min # halftimeMinutes
  /\ halftimeMinutesEffect(min)
  /\ UNCHANGED <<gameVars, appVars, now, playerVars, timerBudget>>

\* the duration select, disabled while the timer runs and in the second half
setHalftimeMinutes(min) ==
  /\ min # halftimeMinutes
  /\ IF isRunning \/ currentHalf = 2
     THEN UNCHANGED <<halftimeMinutes, halfVars, halftimeSeconds>>
     ELSE halftimeMinutesEffect(min)
  /\ UNCHANGED <<gameVars, appVars, now, playerVars, timerBudget>>

\* half durations outside 1..90
InvalidMinutes == {0, 91}

\* Timers is rendered with a halftimeMinutes outside 1..90
invalidHalftimeMinutes(min) ==
  /\ timerBudget.invalid < MaxInvalid
  /\ halftimeMinutesEffect(min)
  /\ timerBudget' = [timerBudget EXCEPT !.invalid = @ + 1]
  /\ UNCHANGED <<gameVars, appVars, now, playerVars>>

(***************************************************************************)
(* PlayerTimer.                                                            *)
(***************************************************************************)
playerStartTimer ==
  /\ IF ~ptIsRunning
     THEN /\ ptIsRunning' = TRUE
          /\ ptStartTimeRef' = Stamp(now)
     ELSE UNCHANGED <<ptIsRunning, ptStartTimeRef>>
  /\ UNCHANGED <<sessionVars, appVars, now, halftimeMinutes, halfVars,
                 ptSeconds, ptAccumulatedRef, playerMinutes, ptRan,
                 timerBudget>>

\* pauseTimer folding the segment from the accumulated value of the last start
playerPauseTimerRestarts ==
  /\ IF ptIsRunning
     THEN LET additionalTime == SecondsSince(ptStartTimeRef)
          IN /\ ptIsRunning' = FALSE
             /\ ptAccumulatedRef' = additionalTime
             /\ ptSeconds' = additionalTime
             /\ playerMinutes' = additionalTime
     ELSE UNCHANGED <<ptIsRunning, ptAccumulatedRef, ptSeconds, playerMinutes>>
  /\ UNCHANGED <<sessionVars, appVars, now, halftimeMinutes, halfVars,
                 ptStartTimeRef, ptRan, timerBudget>>

playerPauseTimer ==
  /\ IF ptIsRunning
     THEN LET additionalTime == SecondsSince(ptStartTimeRef)
              newTotal == ptAccumulatedRef + additionalTime
          IN /\ ptIsRunning' = FALSE
             /\ ptAccumulatedRef' = newTotal
             /\ ptSeconds' = newTotal
             /\ playerMinutes' = newTotal
     ELSE UNCHANGED <<ptIsRunning, ptAccumulatedRef, ptSeconds, playerMinutes>>
  /\ UNCHANGED <<sessionVars, appVars, now, halftimeMinutes, halfVars,
                 ptStartTimeRef, ptRan, timerBudget>>

playerResetTimer ==
  /\ ptIsRunning' = FALSE
  /\ ptSeconds' = 0
  /\ ptAccumulatedRef' = 0
  /\ ptStartTimeRef' = NullStamp
  /\ playerMinutes' = 0
  /\ ptRan' = 0
  /\ UNCHANGED <<sessionVars, appVars, now, halftimeMinutes, halfVars,
                 timerBudget>>

\* the callback of setInterval, which exists while isRunning
PlayerTick ==
  /\ ptIsRunning
  /\ LET elapsed == SecondsSince(ptStartTimeRef)
         newTotal == ptAccumulatedRef + elapsed
     IN /\ ptSeconds' = newTotal
        /\ playerMinutes' = newTotal
  /\ UNCHANGED <<sessionVars, appVars, now, halftimeMinutes, halfVars,
                 ptIsRunning, ptStartTimeRef, ptAccumulatedRef, ptRan,
                 timerBudget>>

ErrorCodes == {"unavailable", "permission-denied"}

\* the live session
NextSession ==
  \/ addOurGoal
  \/ addTheirGoal
  \/ GoalLockTimeout

\* Save Game and the calls it awaits
NextSave ==
  \/ \E name \in Names : SetPlayerName(name)
  \/ \E confirm \in BOOLEAN : saveGame(confirm)
  \/ AddDocOk
  \/ AddDocLostAck
  \/ \E code \in ErrorCodes : AddDocFail(code)
  \/ SaveResolve
  \/ SaveReject

\* the loads of the mount and of the network events
NextLoad ==
  \/ handleOnline
  \/ handleOffline
  \/ \E i \in 1..Len(loads) : GetDocsOk(i)
  \/ \E i \in 1..Len(loads), code \in ErrorCodes : GetDocsFail(i, code)
  \/ \E i \in 1..Len(loads) : LoadResolve(i)
  \/ \E i \in 1..Len(loads) : LoadReject(i)

\* the edit form of GameHistory and the update it ends in
NextEdit ==
  \/ \E i \in 1..Len(savedGames) : startEditing(i)
  \/ cancelEditing
  \/ editAddOurGoal
  \/ editAddTheirGoal
  \/ \E i \in 1..MaxGoals : removeOurGoal(i)
  \/ \E i \in 1..MaxGoals : removeTheirGoal(i)
  \/ \E confirm \in BOOLEAN : saveEdit(confirm)
  \/ UpdateDocOk
  \/ UpdateDocLostAck
  \/ \E code \in ErrorCodes : UpdateDocFail(code)
  \/ UpdateResolve
  \/ UpdateReject

\* Delete Game and the call it awaits
NextDelete ==
  \/ \E i \in 1..Len(savedGames) : handleDelete(i)
  \/ DeleteDocOk
  \/ DeleteDocLostAck
  \/ \E code \in ErrorCodes : DeleteDocFail(code)
  \/ DeleteResolve
  \/ DeleteReject

\* Clear All and the calls it awaits
NextClear ==
  \/ clearAllData
  \/ ClearGetDocsOk
  \/ \E code \in ErrorCodes : ClearGetDocsFail(code)
  \/ ClearDeleteAll
  \/ \E deleted \in SUBSET {DocId(n) : n \in 1..(nextDoc - 1)} :
       ClearDeleteSome(deleted)
  \/ ClearResolve
  \/ ClearReject

\* the sync engine: commits, loads and deletes of games
Next == NextSave \/ NextLoad \/ NextDelete

Spec == Init /\ [][Next]_vars

\* the sync engine: commits, loads and Clear All
NextClearAll == NextSave \/ NextLoad \/ NextClear

SpecClear == Init /\ [][NextClearAll]_vars

\* the history of games: commits of live sessions and their edits
NextHistory ==
  \/ NextSession
  \/ \E name \in Names : SetPlayerName(name)
  \/ \E confirm \in BOOLEAN : saveGame(confirm)
  \/ AddDocOk
  \/ \E code \in ErrorCodes : AddDocFail(code)
  \/ SaveResolve
  \/ SaveReject
  \/ \E i \in 1..Len(loads) : GetDocsOk(i)
  \/ \E i \in 1..Len(loads) : LoadResolve(i)
  \/ NextEdit

SpecHistory == Init /\ [][NextHistory]_vars

\* updates and deletes of committed games
NextMutate ==
  \/ NextSave
  \/ \E i \in 1..Len(loads) : GetDocsOk(i)
  \/ \E i \in 1..Len(loads) : LoadResolve(i)
  \/ NextEdit
  \/ UpdateDocNotFound
  \/ NextDelete

SpecMutate == Init /\ [][NextMutate]_vars

\* the half timer
NextHalfTimer ==
  \/ startTimer
  \/ pauseTimer
  \/ Tick
  \/ startSecondHalf
  \/ resetTimer
  \/ \E min \in HalftimeOptions : setHalftimeMinutes(min)

\* the player timer
NextPlayerTimer ==
  \/ playerStartTimer
  \/ playerPauseTimer
  \/ PlayerTick
  \/ playerResetTimer

\* the half timer against the wall clock
NextTimers ==
  \/ \E d \in ClockSteps : Advance(d)
  \/ NextHalfTimer

SpecTimers == Init /\ [][NextTimers]_vars

\* the player timer against the wall clock
NextClock ==
  \/ \E d \in ClockSteps : Advance(d)
  \/ NextPlayerTimer

SpecClock == Init /\ [][NextClock]_vars

\* both clocks against the wall clock, within one half
NextClocks ==
  \/ \E d \in ClockSteps : Advance(d)
  \/ startTimer
  \/ pauseTimer
  \/ Tick
  \/ resetTimer
  \/ NextPlayerTimer

SpecClocks == Init /\ [][NextClocks]_vars

\* the half timer with half durations that no option of the select yields
NextConfig ==
  \/ NextTimers
  \/ \E min \in InvalidMinutes : invalidHalftimeMinutes(min)

SpecConfig == Init /\ [][NextConfig]_vars

\* a session in which nearly a full timeline has been recorded for each
\* side: the list has loaded and the goal buttons were pressed before the
\* timer was started
InitGoals ==
  /\ InitTimers
  /\ playerName = ""
  /\ date = Today
  /\ opponent = ""
  /\ gameType = "League"
  /\ gameNotes = ""
  /\ halftimeSeconds = 0
  /\ ourGoals = [i \in 1..(MAX_GOALS_PER_GAME - 1) |-> Goal]
  /\ theirGoals = [i \in 1..(MAX_GOALS_PER_GAME - 1) |-> Goal]
  /\ isAddingGoal = FALSE
  /\ stats = ZeroStats
  /\ savedGames = <<>>
  /\ localStore = [present |-> FALSE, games |-> <<>>]
  /\ isLoading = FALSE
  /\ isSaving = FALSE
  /\ syncStatus = "synced"
  /\ networkStatus = TRUE
  /\ lastAlert = ""
  /\ storedPin = userPin
  /\ remote = {}
  /\ nextDoc = 1
  /\ nextLocal = 1
  /\ saveOp = Idle
  /\ loads = <<>>
  /\ updOp = Idle
  /\ delOp = Idle
  /\ clrOp = Idle
  /\ editingGame = 0
  /\ editFormData = NoForm
  /\ nextGid = 1
  /\ committed = {}
  /\ userRemoved = {}
  /\ budget = [loads |-> 1, edits |-> 0, updates |-> 0, deletes |-> 0,
               clears |-> 0,
               faults |-> 0]

\* goals of the live session and of the edit form of a saved game
NextGoals ==
  \/ NextSession
  \/ \E confirm \in BOOLEAN : saveGame(confirm)
  \/ \E i \in 1..Len(savedGames) : startEditing(i)
  \/ cancelEditing
  \/ editAddOurGoal
  \/ editAddTheirGoal
  \/ \E i \in 1..MaxGoals : removeOurGoal(i)
  \/ \E i \in 1..MaxGoals : removeTheirGoal(i)
  \/ \E confirm \in BOOLEAN : saveEdit(confirm)

SpecGoals == InitGoals /\ [][NextGoals]_vars

\* Date.now() of the latest goal of the session
LastGoalAt ==
  LET stamps == {ourGoals[i].timestamp : i \in 1..Len(ourGoals)}
                  \cup {theirGoals[i].timestamp : i \in 1..Len(theirGoals)}
  IN IF stamps = {} THEN 0
     ELSE CHOOSE t \in stamps : \A u \in stamps : u <= t

\* the timeout of the goal buttons fires 500 ms after the goal or later
GoalLockElapsed ==
  /\ now >= LastGoalAt + 500
  /\ GoalLockTimeout

\* the clock steps between the goals of a timeline
GoalSteps == {1000}

\* the goal timeline of the live session: goals recorded against the half
\* timer
NextLiveTimeline ==
  \/ \E d \in GoalSteps : Advance(d)
  \/ startTimer
  \/ Tick
  \/ resetTimer
  \/ addOurGoal
  \/ addTheirGoal
  \/ GoalLockElapsed
  \/ \E i \in 1..Len(loads) : GetDocsOk(i)
  \/ \E i \in 1..Len(loads) : LoadResolve(i)

SpecLiveTimeline == Init /\ [][NextLiveTimeline]_vars

\* the goal timeline of a saved game: goals recorded, saved and edited in the
\* history
NextTimeline ==
  \/ \E d \in GoalSteps : Advance(d)
  \/ addOurGoal
  \/ addTheirGoal
  \/ GoalLockElapsed
  \/ \E i \in 1..Len(loads) : GetDocsOk(i)
  \/ \E i \in 1..Len(loads) : LoadResolve(i)
  \/ \E confirm \in BOOLEAN : saveGame(confirm)
  \/ \E i \in 1..Len(savedGames) : startEditing(i)
  \/ \E team \in {"our", "their"}, i \in 1..MaxGoals, newTime \in GoalTimes :
       updateGoalTime(team, i, newTime)
  \/ \E confirm \in BOOLEAN : saveEdit(confirm)
  \/ cancelEditing

SpecTimeline == Init /\ [][NextTimeline]_vars

\* the time between two looks at the game clock: 3 min 5 s
EntrySteps == {185000}

\* goal entries: goals recorded against the running half timer, saved, and
\* their times edited in the history
NextEntries ==
  \/ \E d \in EntrySteps : Advance(d)
  \/ startTimer
  \/ Tick
  \/ addOurGoal
  \/ addTheirGoal
  \/ GoalLockElapsed
  \/ \E i \in 1..Len(loads) : GetDocsOk(i)
  \/ \E i \in 1..Len(loads) : LoadResolve(i)
  \/ \E confirm \in BOOLEAN : nextGid = 1 /\ saveGame(confirm)
  \/ \E i \in 1..Len(savedGames) : startEditing(i)
  \/ \E team \in {"our", "their"}, i \in 1..MaxGoals, newTime \in GoalTimes :
       updateGoalTime(team, i, newTime)
  \/ \E confirm \in BOOLEAN : saveEdit(confirm)
  \/ cancelEditing

SpecEntries == Init /\ [][NextEntries]_vars

\* the counters whose buttons are pressed: a validated pair the edit form
\* shows, a validated counter it does not show, and an unvalidated counter
LedgerStats == {"goalsLeft", "shotsLeft", "offensive1v1Won", "assists"}

\* the stat ledger of the live session and the commit of its first game
NextLedger ==
  \/ \E stat \in LedgerStats : increment(stat)
  \/ \E stat \in LedgerStats : decrement(stat)
  \/ NextSession
  \/ \E name \in Names : SetPlayerName(name)
  \/ \E confirm \in BOOLEAN : nextGid = 1 /\ saveGame(confirm)
  \/ AddDocOk
  \/ \E code \in ErrorCodes : AddDocFail(code)
  \/ SaveResolve
  \/ SaveReject
  \/ \E i \in 1..Len(loads) : GetDocsOk(i)
  \/ \E i \in 1..Len(loads) : LoadResolve(i)

SpecLedger == Init /\ [][NextLedger]_vars

\* the counters of a committed game corrected in the edit form: the stat
\* buttons, the commit of the first game, and numbers typed into the Goals
\* Left and Shots Left fields (a count of 3, and -1, which the field takes
\* although its min is 0)
NextEdits ==
  \/ \E stat \in LedgerStats : increment(stat)
  \/ \E stat \in LedgerStats : decrement(stat)
  \/ \E name \in Names : SetPlayerName(name)
  \/ \E confirm \in BOOLEAN : nextGid = 1 /\ saveGame(confirm)
  \/ AddDocOk
  \/ SaveResolve
  \/ \E i \in 1..Len(loads) : GetDocsOk(i)
  \/ \E i \in 1..Len(loads) : LoadResolve(i)
  \/ \E i \in 1..Len(savedGames) : startEditing(i)
  \/ \E field \in {"goalsLeft", "shotsLeft"}, value \in {-1, 3} :
       handleInputChange(field, value)
  \/ \E confirm \in BOOLEAN : saveEdit(confirm)
  \/ cancelEditing
  \/ UpdateDocOk
  \/ \E code \in ErrorCodes : UpdateDocFail(code)
  \/ UpdateResolve
  \/ UpdateReject

SpecEdits == Init /\ [][NextEdits]_vars

\* a session with its game info filled in, a counter, a goal, notes and the
\* half timer running, committed once; the write succeeds or fails
NextCommit ==
  \/ \E name \in Names : SetPlayerName(name)
  \/ \E name \in {"Rovers"} : setOpponent(name)
  \/ \E type \in {"Tournament"} : setGameType(type)
  \/ \E text \in {"wet pitch"} : setGameNotes(text)
  \/ \E stat \in {"fouls"} : increment(stat)
  \/ \E d \in GoalSteps : Advance(d)
  \/ startTimer
  \/ Tick
  \/ addOurGoal
  \/ \E i \in 1..Len(loads) : GetDocsOk(i)
  \/ \E i \in 1..Len(loads) : LoadResolve(i)
  \/ \E confirm \in BOOLEAN : nextGid = 1 /\ saveGame(confirm)
  \/ AddDocOk
  \/ \E code \in {"permission-denied"} : AddDocFail(code)
  \/ SaveResolve
  \/ SaveReject

SpecCommit == Init /\ [][NextCommit]_vars

\* goals added and undone on both sides of a long timeline, with a counter
\* counted beside them
NextUndo ==
  \/ \E d \in GoalSteps : Advance(d)
  \/ addOurGoal
  \/ addTheirGoal
  \/ GoalLockElapsed
  \/ removeLastOurGoal
  \/ removeLastTheirGoal
  \/ \E stat \in {"goalsLeft"} : increment(stat)
  \/ \E stat \in {"goalsLeft"} : decrement(stat)

SpecUndo == InitGoals /\ [][NextUndo]_vars

\* the keys of the goals of a game: goals recorded live, the game committed,
\* and goals added to it in an edit form opened after the clock has moved on
\* from its last goal
NextKeys ==
  \/ \E d \in GoalSteps : Advance(d)
  \/ addOurGoal
  \/ addTheirGoal
  \/ GoalLockElapsed
  \/ removeLastOurGoal
  \/ \E i \in 1..Len(loads) : GetDocsOk(i)
  \/ \E i \in 1..Len(loads) : LoadResolve(i)
  \/ \E confirm \in BOOLEAN : nextGid = 1 /\ saveGame(confirm)
  \/ \E i \in 1..Len(savedGames) :
       /\ \A team \in {"our", "their"} :
            \A n \in 1..Len(savedGames[i].goalHistory[team]) :
              now > savedGames[i].goalHistory[team][n].timestamp
       /\ startEditing(i)
  \/ editAddOurGoal
  \/ editAddTheirGoal
  \/ \E confirm \in BOOLEAN : saveEdit(confirm)
  \/ cancelEditing

SpecKeys == Init /\ [][NextKeys]_vars

\* a second, and the rest of a half of thirty minutes
SavingSteps == {1000, 1799000}

\* both timers running through the first commit and the calls it awaits
NextSaving ==
  \/ \E d \in SavingSteps : Advance(d)
  \/ startTimer
  \/ pauseTimer
  \/ Tick
  \/ playerStartTimer
  \/ PlayerTick
  \/ \E name \in Names : SetPlayerName(name)
  \/ \E i \in 1..Len(loads) : GetDocsOk(i)
  \/ \E i \in 1..Len(loads) : LoadResolve(i)
  \/ \E confirm \in BOOLEAN : nextGid = 1 /\ saveGame(confirm)
  \/ AddDocOk
  \/ \E code \in {"permission-denied"} : AddDocFail(code)
  \/ SaveResolve
  \/ SaveReject

SpecSaving == Init /\ [][NextSaving]_vars

\* a named game committed while the remote store cannot be reached, and the
\* connection lost and restored
NextResync ==
  \/ \E name \in Names : SetPlayerName(name)
  \/ \E confirm \in BOOLEAN :
       playerName # "" /\ nextGid = 1 /\ saveGame(confirm)
  \/ AddDocOk
  \/ \E code \in {"unavailable"} : AddDocFail(code)
  \/ SaveResolve
  \/ SaveReject
  \/ handleOffline
  \/ handleOnline
  \/ \E i \in 1..Len(loads) : GetDocsOk(i)
  \/ \E i \in 1..Len(loads) : LoadResolve(i)

\* every call that was issued returns, and every handler that awaits a call
\* that returned resumes
FairResync ==
  /\ WF_vars(AddDocOk \/ AddDocFail("unavailable"))
  /\ WF_vars(SaveResolve)
  /\ WF_vars(SaveReject)
  /\ \A i \in 1..MaxInFlight : WF_vars(GetDocsOk(i))
  /\ \A i \in 1..MaxInFlight : WF_vars(LoadResolve(i))

SpecResync == Init /\ [][NextResync]_vars /\ FairResync

\* commits with and without a player name and a date
NextRequired ==
  \/ NextSave
  \/ \E value \in Dates : setDate(value)
  \/ \E i \in 1..Len(loads) : GetDocsOk(i)
  \/ \E i \in 1..Len(loads) : LoadResolve(i)

SpecRequired == Init /\ [][NextRequired]_vars

\* the sync engine of this tab beside the PIN entry of a second tab
NextScope ==
  \/ NextSave
  \/ NextLoad
  \/ \E pin \in Pins : handlePinSubmit(pin)

SpecScope == Init /\ [][NextScope]_vars

(***************************************************************************)
(* Properties.                                                             *)
(***************************************************************************)
\* the games of the localStorage entry, none when the entry is absent
StoredGames(ls) == IF ls.present THEN ls.games ELSE <<>>

\* a record whose score and result follow from its goal history
Derived(g) ==
  /\ g.ourGoals = Len(g.goalHistory.our)
  /\ g.theirGoals = Len(g.goalHistory.their)
  /\ (g.gameResult = "Win") = (g.ourGoals > g.theirGoals)
  /\ (g.gameResult = "Loss") = (g.ourGoals < g.theirGoals)
  /\ (g.gameResult = "Tie") = (g.ourGoals = g.theirGoals)

\* C1: every record of the local cache (the list in memory and the
\* localStorage copy) has ourGoals and theirGoals equal to the lengths of
\* its goal history and gameResult equal to Win, Loss or Tie as ourGoals is
\* above, below or equal to theirGoals, after a commit and after an edit.
C1_RecordsDerived ==
  /\ \A i \in 1..Len(savedGames) : Derived(savedGames[i])
  /\ \A i \in 1..Len(localStore.games) : Derived(localStore.games[i])

\* an edit was mirrored into the list: the row differs in its result from
\* the document of the same id, which no commit alone brings about
C1_EditedRecordCached ==
  \E i \in 1..Len(savedGames) : \E d \in remote :
    /\ d.id = savedGames[i].id
    /\ d.gameResult # savedGames[i].gameResult

\* C2: a record that a commit produced stays in the local cache until the
\* user deletes it or clears all games.
C2_NeverSilentlyLost ==
  \A g \in committed \ userRemoved : g \in Gids(savedGames)

\* the copies of commit g in a list
CopiesIn(s, g) == Cardinality({i \in 1..Len(s) : s[i].gid = g})

\* C3: for every commit there is at most one document in the remote store
\* and at most one entry in the local cache.
C3_AtMostOneCopy ==
  \A g \in 1..(nextGid - 1) :
    /\ Cardinality({d \in remote : d.gid = g}) <= 1
    /\ CopiesIn(savedGames, g) <= 1

\* the step in which saveGame ends in its catch, for the commit gid
SaveFails(gid) ==
  \/ saveOp.pc = "failed" /\ saveOp'.pc = "idle" /\ gid = saveOp.game.gid
  \/ /\ saveOp.pc = "idle" /\ saveOp'.pc = "idle"
     /\ nextGid' = nextGid + 1 /\ gid = nextGid

C5_TagMatchesRemote ==
  InFlight = 0 =>
    \A i \in 1..Len(savedGames) :
      ~startsWithLocal(savedGames[i].id) <=> DocExists(savedGames[i].id)

\* C6: a save makes at most 3 remote write attempts, and after a
\* permission-denied error it makes no further attempt: it has failed.
C6_BoundedRetry ==
  saveOp.pc # "idle" =>
    /\ saveOp.calls <= 3
    /\ saveOp.attempt <= 3
    /\ saveOp.pc = "pending" => saveOp.calls < 3
    /\ saveOp.code = "permission-denied" => saveOp.pc = "failed"

\* a save failed after three attempts
C6_RetriesExhausted ==
  /\ saveOp.pc = "failed"
  /\ saveOp.calls = 3
  /\ saveOp.code = "unavailable"

\* the step in which the load i resumes after loadGames resolved
LoadSucceeds(i) ==
  /\ i \in 1..Len(loads)
  /\ loads[i].pc = "ok"
  /\ loads' = RemoveAt(loads, i)

\* C7: after a successful load() the list in memory and the localStorage
\* copy both hold exactly the records the remote store returned.
C7_LoadReplacesCache ==
  [][\A i \in 1..MaxLoads :
       LoadSucceeds(i) =>
         /\ savedGames' = loads[i].games
         /\ StoredGames(localStore') = loads[i].games]_vars

\* the step in which the load i resumes in its catch
LoadFails(i) ==
  /\ i \in 1..Len(loads)
  /\ loads[i].pc = "failed"
  /\ loads' = RemoveAt(loads, i)

\* C8: when load() fails the list the user sees is the list before the
\* load, and the error is surfaced in the sync status.
C8_FailedLoadKeepsList ==
  [][\A i \in 1..MaxLoads :
       LoadFails(i) => savedGames' = savedGames /\ syncStatus' = "error"]_vars

\* the steps in which handleGameUpdate and handleGameDelete resume
UpdateSettles == updOp.pc \in {"ok", "failed"} /\ updOp'.pc = "idle"
DeleteSettles == delOp.pc \in {"ok", "failed"} /\ delOp'.pc = "idle"

\* the step in which Save Changes is clicked on a local-only row
LocalUpdate ==
  /\ FormShown
  /\ budget'.updates = budget.updates + 1
  /\ startsWithLocal(savedGames[editingGame].id)

\* the step in which Delete Game is confirmed on the local-only row index
LocalDelete(index) ==
  /\ index \in 1..Len(savedGames)
  /\ startsWithLocal(savedGames[index].id)
  /\ userRemoved' # userRemoved
  /\ savedGames[index].gid \in userRemoved' \ userRemoved

\* C9: when the update of a remote-backed record settles, the row holds the
\* patch under the id it had, and when its delete settles no row has that
\* id, whether the remote call succeeded or failed; a failure is alerted;
\* an update or delete of a local-only record reaches the list in the same
\* step and makes no remote call.
C9_MutationsMirrored ==
  [][/\ UpdateSettles =>
          /\ updOp.gameIndex \in 1..Len(savedGames')
          /\ savedGames'[updOp.gameIndex].id = updOp.sg[updOp.gameIndex].id
          /\ savedGames'[updOp.gameIndex] =
               [updOp.game EXCEPT !.id = updOp.sg[updOp.gameIndex].id]
          /\ localStore'.games = savedGames'
          /\ updOp.pc = "failed" => lastAlert' = "Failed to update game"
     /\ DeleteSettles =>
          /\ delOp.id \notin Ids(savedGames')
          /\ localStore'.games = savedGames'
          /\ delOp.pc = "failed" => lastAlert' = "Failed to delete game"
     /\ LocalUpdate =>
          /\ updOp' = updOp
          /\ remote' = remote
          /\ savedGames'[editingGame] =
               [UpdatedGame(savedGames[editingGame], editFormData)
                  EXCEPT !.id = savedGames[editingGame].id]
     /\ \A index \in 1..MaxCommits :
          LocalDelete(index) =>
            /\ delOp' = delOp
            /\ remote' = remote
            /\ savedGames[index].id \notin Ids(savedGames')]_vars

\* an update whose remote call failed left its patch in the list
C9_PatchKeptAfterFailedUpdate ==
  /\ updOp.pc = "idle"
  /\ lastAlert = "Failed to update game"
  /\ \E i \in 1..Len(savedGames) : \E d \in remote :
       /\ d.id = savedGames[i].id
       /\ ~MissingRequired(savedGames[i])
       /\ d.goalHistory # savedGames[i].goalHistory

\* the step in which clearAllData resumes
ClearSettles == clrOp.pc \in {"ok", "failed"} /\ clrOp'.pc = "idle"

C11_NoLostUpdate ==
  InFlight = 0 =>
    /\ \A g \in committed \ userRemoved : g \in Gids(savedGames)
    /\ \A g \in userRemoved : g \notin Gids(savedGames)

\* C12: in every state the elapsed seconds of the current half are at most
\* the half duration in seconds, whether a tick or pauseTimer set them.
C12_ElapsedWithinHalf == seconds <= totalHalftimeSeconds

\* the running half timer has reached the end of the half on the wall clock
TickDue ==
  /\ isRunning
  /\ ~isTimeUp
  /\ accumulatedRef + SecondsSince(startTimeRef) >= totalHalftimeSeconds

\* C13: a tick that finds the half over sets elapsed to the half duration
\* and stops the timer; the timer never runs while isTimeUp holds; and while
\* isTimeUp holds no step other than startSecondHalf or a reset (which take
\* elapsed to 0) changes elapsed or starts the timer.
C13_TimeUpStopsTimer ==
  [][/\ (TickDue /\ seconds' > seconds /\ accumulatedRef' = accumulatedRef) =>
          seconds' = totalHalftimeSeconds /\ ~isRunning'
     /\ isTimeUp' => ~isRunning'
     /\ (isTimeUp /\ seconds' # 0) =>
          seconds' = seconds /\ isRunning' = isRunning]_vars

\* the second half ended by a tick
C13_FullTimeByTick ==
  /\ currentHalf = 2
  /\ seconds = totalHalftimeSeconds
  /\ startTimeRef.set
  /\ ~isRunning

\* C14: whenever PlayerTimer is paused, the real time it has spent running
\* exceeds its elapsed seconds by less than two seconds and is never below
\* them, however many start/pause cycles there were.
C14_ElapsedIsRunningTime ==
  ~ptIsRunning =>
    /\ ptSeconds * 1000 <= ptRan
    /\ ptRan - ptSeconds * 1000 < 2000

\* a step that leaves a clock in the state of a reset
HalfCleared ==
  seconds' = 0 /\ accumulatedRef' = 0 /\ ~startTimeRef'.set /\ ~isRunning'
PlayerCleared ==
  ptSeconds' = 0 /\ ptAccumulatedRef' = 0 /\ ~ptStartTimeRef'.set /\ ~ptIsRunning'

\* C15: in every step that is not a reset, the elapsed seconds of the half
\* timer and of the player timer do not decrease, and they stay the same in
\* a step that starts and ends paused.
C15_ElapsedMonotonic ==
  [][/\ ~HalfCleared =>
          /\ seconds' >= seconds
          /\ (~isRunning /\ ~isRunning') => seconds' = seconds
     /\ ~PlayerCleared =>
          /\ ptSeconds' >= ptSeconds
          /\ (~ptIsRunning /\ ~ptIsRunning') => ptSeconds' = ptSeconds]_vars

\* both clocks are paused after a second start, each with time on it
C15_PausedAfterRestart ==
  /\ ~isRunning /\ seconds > 0 /\ accumulatedRef > 0
  /\ startTimeRef.set /\ startTimeRef.at > 0
  /\ ~ptIsRunning /\ ptSeconds > 0
  /\ ptStartTimeRef.set /\ ptStartTimeRef.at > 0
  /\ now > startTimeRef.at
  /\ now > ptStartTimeRef.at

\* C16: in every state the start timestamp of a clock is non-null exactly
\* when the clock is running.
C16_StampIffRunning ==
  /\ startTimeRef.set <=> isRunning
  /\ ptStartTimeRef.set <=> ptIsRunning

GoalCounts ==
  {<<Len(ourGoals), Len(theirGoals)>>}
    \cup {<<Len(savedGames[i].goalHistory.our),
             Len(savedGames[i].goalHistory.their)>> : i \in 1..Len(savedGames)}
    \cup (IF editFormData.open
          THEN {<<Len(editFormData.goalHistory.our),
                  Len(editFormData.goalHistory.their)>>}
          ELSE {})

\* C19: the number of goals recorded for a side never exceeds
\* MAX_GOALS_PER_GAME, in the live session, in the edit form and in the
\* saved records
C19_GoalsWithinCap ==
  \A c \in GoalCounts : c[1] <= MAX_GOALS_PER_GAME /\ c[2] <= MAX_GOALS_PER_GAME

\* a goal of a timeline with its side
Typed(goal, type) ==
  [time |-> goal.time, minute |-> goal.minute, timestamp |-> goal.timestamp,
   type |-> type]

\* Array.prototype.sort((a, b) => a.timestamp - b.timestamp), which is stable
RECURSIVE SortByTimestamp(_)
SortByTimestamp(s) ==
  IF s = <<>> THEN <<>>
  ELSE LET g == s[Len(s)]
           t == SortByTimestamp(SubSeq(s, 1, Len(s) - 1))
           k == Cardinality({j \in 1..Len(t) : t[j].timestamp <= g.timestamp})
       IN SubSeq(t, 1, k) \o <<g>> \o SubSeq(t, k + 1, Len(t))

\* the list the Goal Timeline renders for the goals of the two sides
merged(our, their) ==
  SortByTimestamp([i \in 1..Len(our) |-> Typed(our[i], "us")]
                    \o [i \in 1..Len(their) |-> Typed(their[i], "them")])

\* a timeline in ascending order of the game clock of its goals
ByGameClock(timeline) ==
  \A i \in 1..Len(timeline), j \in 1..Len(timeline) :
    i < j => parseTimeToSeconds(timeline[i].time)
               <= parseTimeToSeconds(timeline[j].time)

\* C20: the Goal Timeline of the live session and of every saved game lists
\* the goals of both sides in ascending order of their game clock
C20_MergedByGameClock ==
  /\ ByGameClock(merged(ourGoals, theirGoals))
  /\ \A i \in 1..Len(savedGames) :
       ByGameClock(merged(savedGames[i].goalHistory.our,
                          savedGames[i].goalHistory.their))

\* every goal entry held by the session, the edit form, the list of saved
\* games and its localStorage copy
GoalEntries ==
  LET Of(h) == {h.our[i] : i \in 1..Len(h.our)}
                 \cup {h.their[i] : i \in 1..Len(h.their)}
      games == savedGames \o StoredGames(localStore)
  IN Of([our |-> ourGoals, their |-> theirGoals])
       \cup (IF editFormData.open THEN Of(editFormData.goalHistory) ELSE {})
       \cup UNION {Of(games[i].goalHistory) : i \in 1..Len(games)}

\* a step that edits the time of one entry of the open form
EditsEntry ==
  /\ editFormData.open /\ editFormData'.open
  /\ editFormData'.goalHistory # editFormData.goalHistory
  /\ Len(editFormData'.goalHistory.our) = Len(editFormData.goalHistory.our)
  /\ Len(editFormData'.goalHistory.their)
       = Len(editFormData.goalHistory.their)

C22_CountersNonNegative == \A stat \in StatNames : stats[stat] \in Nat

\* one counter stands at 0, where its - button can still be pressed, after
\* another has been counted up
C22_ZeroBesideCounted ==
  /\ stats["goalsLeft"] = 0
  /\ stats["shotsLeft"] = MaxCount

\* the records of the list of saved games, of its localStorage copy and of
\* the remote collection
Records ==
  {savedGames[i] : i \in 1..Len(savedGames)}
    \cup {StoredGames(localStore)[i] : i \in 1..Len(StoredGames(localStore))}
    \cup remote

\* the rate text of a record is '0%', or it is the toFixed(1) text of the
\* tenth of a percent nearest to totalGoals / totalShots * 100
RateOf(r) ==
  IF r.totalShots = 0 THEN r.goalConversionRate = <<"0%">>
  ELSE /\ Len(r.goalConversionRate) = 2
       /\ LET t == r.goalConversionRate[2]
              d == t * r.totalShots - 1000 * r.totalGoals
              s == IF r.totalShots < 0 THEN 0 - r.totalShots ELSE r.totalShots
          IN 2 * (IF d < 0 THEN 0 - d ELSE d) <= s

\* C23: every record produced by a commit or an edit has totalGoals and
\* totalShots equal to the sums of its own foot counters, and a
\* goalConversionRate of '0%' when totalShots is 0 and of
\* totalGoals / totalShots * 100 to one decimal otherwise
C23_ConversionRate ==
  \A r \in Records :
    /\ r.totalGoals = r.stats["goalsLeft"] + r.stats["goalsRight"]
    /\ r.totalShots = r.stats["shotsLeft"] + r.stats["shotsRight"]
    /\ RateOf(r)

\* C24: the check run by a history edit returns a warning for exactly each
\* of the eight conditions that the record about to be stored violates, as
\* the check run by a commit does for the counters of the session
C24_EditCheckComplete ==
  FormShown =>
    editValidateStats(editFormData.stats)
      = validateStats(UpdatedGame(savedGames[editingGame], editFormData).stats)

SaveSettles == saveOp.pc \in {"ok", "failed"} /\ saveOp'.pc = "idle"

\* C25: when validateStats gives warnings, Save Game with the confirm
\* declined changes nothing; with the confirm accepted the commit is issued
\* with the counters as they are, and when it settles, after a successful
\* or a failed write, the record is in the list and in its localStorage copy
C25_ConfirmGate ==
  [][/\ validateStats(stats) # {} /\ saveGame(FALSE) => UNCHANGED vars
     /\ validateStats(stats) # {} /\ saveGame(TRUE) =>
          /\ nextGid' = nextGid + 1
          /\ \/ saveOp'.pc = "pending" /\ saveOp'.game.stats = stats
             \/ \E i \in 1..Len(savedGames') :
                  savedGames'[i].gid = nextGid /\ savedGames'[i].stats = stats
     /\ SaveSettles =>
          /\ \E i \in 1..Len(savedGames') :
               /\ savedGames'[i].gid = saveOp.game.gid
               /\ savedGames'[i].stats = saveOp.game.stats
          /\ localStore' = [present |-> TRUE, games |-> savedGames']]_vars

\* a commit that was confirmed despite warnings has settled and is stored
C25_WarnedCommitStored ==
  /\ saveOp.pc = "idle"
  /\ \E i \in 1..Len(savedGames) :
       /\ validateStats(savedGames[i].stats) # {}
       /\ localStore.present
       /\ savedGames[i] \in {localStore.games[j] : j \in 1..Len(localStore.games)}

\* a commit resolves: saveGame resumes after its await, or its write was
\* rejected at once for a missing required field
CommitResolves ==
  SaveSettles \/ (nextGid' = nextGid + 1 /\ saveOp'.pc = "idle")

\* C26: when a commit resolves, after a successful or a failed write, every
\* stat counter is 0 and both goal lists and the notes are empty, while date,
\* player, opponent, game type, half duration and the state of the half
\* timer are what they were
C26_CommitResetsSession ==
  [][CommitResolves =>
       /\ stats' = ZeroStats
       /\ ourGoals' = <<>>
       /\ theirGoals' = <<>>
       /\ gameNotes' = ""
       /\ UNCHANGED <<date, playerName, opponent, gameType, halftimeMinutes,
                      halftimeSeconds, halfVars>>]_vars

\* a game with a counter, a goal and notes was committed while the half
\* timer ran, and the session is cleared with its game info kept
C26_ClearedWithInfoKept ==
  /\ saveOp.pc = "idle"
  /\ \E i \in 1..Len(savedGames) :
       /\ savedGames[i].stats # ZeroStats
       /\ savedGames[i].gameNotes # ""
       /\ savedGames[i].goalHistory.our # <<>>
       /\ savedGames[i].opponent = opponent
       /\ savedGames[i].gameType = gameType
  /\ opponent # ""
  /\ gameType # "League"
  /\ isRunning
  /\ seconds > 0
  /\ stats = ZeroStats
  /\ ourGoals = <<>>
  /\ gameNotes = ""

\* C27: an edit form saved as startEditing filled it hands on a record equal
\* to the row it was opened on (the playing time read back from its m:ss
\* text is the playing time that was formatted), and when that update
\* settles, mirrored or after a failed write, the list of saved games is the
\* list it was issued on, record for record
C27_UnchangedEditKeepsRecord ==
  [][/\ (/\ FormShown
         /\ editFormData = EditFormOf(savedGames[editingGame])
         /\ saveEdit(TRUE)) =>
          /\ updOp'.pc = "pending" => updOp'.game = savedGames[editingGame]
          /\ savedGames' = savedGames
          /\ \A played \in 0..(halftimeMinutes * 60) :
               parseTimeToSeconds(formatTime(played)) = played
     /\ (UpdateSettles /\ updOp.game = updOp.sg[updOp.gameIndex]) =>
          /\ savedGames' = updOp.sg
          /\ localStore'.games = updOp.sg]_vars

\* an edit has been saved and has settled on a remote-backed record whose
\* foot counters are the ones the stat buttons counted
C27_UnchangedEditSettled ==
  /\ budget.updates = 1
  /\ updOp.pc = "idle"
  /\ \E i \in 1..Len(savedGames) :
       /\ RemoteBacked(savedGames[i])
       /\ savedGames[i].stats["goalsLeft"] = MaxCount
       /\ savedGames[i].stats["shotsLeft"] = MaxCount
       /\ savedGames[i] \in {localStore.games[j] : j \in 1..Len(localStore.games)}

\* C28: an update or a delete that comes to act on the list of saved games
\* when no record of the list has the id it targets shows an alert and leaves
\* the list and its localStorage copy as they are
C28_AbsentTargetRejected ==
  [][/\ (UpdateSettles /\ updOp.id \notin Ids(savedGames)) =>
          /\ UNCHANGED cacheVars
          /\ lastAlert' = "Failed to update game"
     /\ (DeleteSettles /\ delOp.id \notin Ids(savedGames)) =>
          /\ UNCHANGED cacheVars
          /\ lastAlert' = "Failed to delete game"]_vars

\* C29: every step that takes the timer from the first half to the second
\* starts with the first half at time up, and leaves the second half paused
\* with a zeroed clock
C29_SecondHalfFromTimeUp ==
  [][(currentHalf = 1 /\ currentHalf' = 2) =>
       /\ isTimeUp
       /\ seconds' = 0
       /\ accumulatedRef' = 0
       /\ ~startTimeRef'.set
       /\ ~isRunning']_vars

\* the second half has been entered and waits, paused, at 0:00
C29_SecondHalfEntered ==
  currentHalf = 2 /\ seconds = 0 /\ ~isRunning /\ ~startTimeRef.set

\* a step of resetTimer: the first half, paused at 0:00
GameReset == currentHalf' = 1 /\ seconds' = 0 /\ accumulatedRef' = 0

\* C30: the game clock handed to GameStats is the elapsed time in the first
\* half and the half duration plus the elapsed time in the second; it never
\* exceeds twice the half duration, and no step but a reset of the game,
\* startSecondHalf included, makes it decrease
C30_GameClockPosition ==
  [][/\ halftimeSeconds' =
          (IF currentHalf' = 1 THEN seconds'
           ELSE halftimeMinutes' * 60 + seconds')
     /\ halftimeSeconds' <= 2 * (halftimeMinutes' * 60)
     /\ ~GameReset => halftimeSeconds' >= halftimeSeconds]_vars

\* C31: from full time, the second half at time up, the only step that
\* changes the half timer or the half duration is a reset of the game; and
\* resetTimer, from whatever state, leaves the first half paused at 0:00 with
\* cleared references and the half duration as it was
C31_FullTimeTerminal ==
  [][/\ (currentHalf = 2 /\ isTimeUp) =>
          \/ UNCHANGED <<halfVars, halftimeMinutes, halftimeSeconds>>
          \/ /\ currentHalf' = 1
             /\ seconds' = 0
             /\ ~isRunning'
             /\ halftimeMinutes' = halftimeMinutes
     /\ resetTimer =>
          /\ currentHalf' = 1
          /\ seconds' = 0
          /\ halftimeSeconds' = 0
          /\ accumulatedRef' = 0
          /\ ~startTimeRef'.set
          /\ ~isRunning'
          /\ halftimeMinutes' = halftimeMinutes]_vars

\* full time has been reached and the wall clock has moved on since
C31_PastFullTime ==
  /\ currentHalf = 2
  /\ isTimeUp
  /\ startTimeRef.set
  /\ now > startTimeRef.at + totalHalftimeSeconds * 1000

\* a step that takes goals off a side of the live timeline
ShortensOur == Len(ourGoals') < Len(ourGoals)
ShortensTheir == Len(theirGoals') < Len(theirGoals)

\* C32 as stated: whenever a side has a goal, its undo can take the most
\* recently added goal of that side off
C32_UndoWheneverNonEmpty ==
  /\ (~isLoading /\ ourGoals # <<>>) =>
       ENABLED (removeLastOurGoal /\ ourGoals' = SubSeq(ourGoals, 1, Len(ourGoals) - 1)
                  /\ ShortensOur)
  /\ (~isLoading /\ theirGoals # <<>>) =>
       ENABLED (removeLastTheirGoal /\ theirGoals' = SubSeq(theirGoals, 1, Len(theirGoals) - 1)
                  /\ ShortensTheir)

\* C32, amended: while the goal lock is not held, the undo of a side that has
\* a goal takes exactly its most recently added goal off; while the lock is
\* held, for 500 ms after a goal was added, it does nothing; the slice of an
\* empty side is empty; and a step that shortens a side takes one goal off
\* its end and changes neither the other side nor a stat counter
C32_UndoUnlessLocked ==
  /\ [](/\ (~isLoading /\ ~isAddingGoal /\ ourGoals # <<>>) =>
            ENABLED (removeLastOurGoal /\ ourGoals' = SubSeq(ourGoals, 1, Len(ourGoals) - 1)
                       /\ ShortensOur)
        /\ (~isLoading /\ ~isAddingGoal /\ theirGoals # <<>>) =>
            ENABLED (removeLastTheirGoal
                       /\ theirGoals' = SubSeq(theirGoals, 1, Len(theirGoals) - 1)
                       /\ ShortensTheir)
        /\ isAddingGoal => ~ENABLED (removeLastOurGoal /\ ShortensOur)
        /\ isAddingGoal => ~ENABLED (removeLastTheirGoal /\ ShortensTheir)
        /\ DropLast(<<>>) = <<>>)
  /\ [][/\ ShortensOur =>
             /\ ourGoals' = SubSeq(ourGoals, 1, Len(ourGoals) - 1)
             /\ UNCHANGED <<theirGoals, stats>>
        /\ ShortensTheir =>
             /\ theirGoals' = SubSeq(theirGoals, 1, Len(theirGoals) - 1)
             /\ UNCHANGED <<ourGoals, stats>>]_vars

\* a goal has been undone on our side, which started with one goal under the
\* cap, beside a full timeline of the other side and a counted stat
C32_GoalUndone ==
  /\ Len(ourGoals) = MAX_GOALS_PER_GAME - 2
  /\ Len(theirGoals) = MAX_GOALS_PER_GAME
  /\ theirGoals[Len(theirGoals)].timestamp > 0
  /\ stats["goalsLeft"] = MaxCount

\* the timestamps of a timeline order its goals: they grow along each side
\* and no two goals of the timeline share one
KeysOrder(our, their) ==
  /\ \A i, j \in 1..Len(our) : i < j => our[i].timestamp < our[j].timestamp
  /\ \A i, j \in 1..Len(their) :
       i < j => their[i].timestamp < their[j].timestamp
  /\ \A i \in 1..Len(our), j \in 1..Len(their) :
       our[i].timestamp # their[j].timestamp

\* C33: in the live session, in the edit form and in every saved game, a
\* goal added later has a larger key than the goals added before it, and no
\* two goals, of either side, share a key
C33_KeysTotalOrder ==
  /\ KeysOrder(ourGoals, theirGoals)
  /\ FormShown =>
       KeysOrder(editFormData.goalHistory.our, editFormData.goalHistory.their)
  /\ \A i \in 1..Len(savedGames) :
       KeysOrder(savedGames[i].goalHistory.our,
                 savedGames[i].goalHistory.their)

\* a step of saveGame or of the calls it awaits
SaveStep == saveOp' # saveOp \/ isSaving' # isSaving

SavingRecord(game) == saveOp.pc # "idle" /\ game.gid = saveOp.game.gid

\* C35: no delete and no update, of the list or of the remote store, is
\* issued or in flight for the record of a commit whose save has not resolved,
\* and the edit form is not open on it
C35_NoMutationWhileSaving ==
  /\ delOp.pc # "idle" => ~SavingRecord(delOp.sg[delOp.gameIndex])
  /\ updOp.pc # "idle" => ~SavingRecord(updOp.sg[updOp.gameIndex])
  /\ editingGame \in 1..Len(savedGames) =>
       ~SavingRecord(savedGames[editingGame])

\* C36: a step that takes the network status to online issues one load, at
\* its first attempt, and leaves the cache alone; a step that takes it to
\* offline issues no load and changes neither the list nor its local copy;
\* and no load is issued by anything but the step to online
C36_OnlineTriggersLoad ==
  [][/\ (~networkStatus /\ networkStatus') =>
          /\ Len(loads') = Len(loads) + 1
          /\ loads'[Len(loads')].pc = "pending"
          /\ loads'[Len(loads')].attempt = 1
          /\ SubSeq(loads', 1, Len(loads)) = loads
          /\ syncStatus' = "syncing"
          /\ UNCHANGED cacheVars
     /\ (networkStatus /\ ~networkStatus') =>
          UNCHANGED <<loads, cacheVars, storeVars, syncStatus>>
     /\ Len(loads') > Len(loads) => (~networkStatus /\ networkStatus')]_vars

\* back online with a game in the list: the load of the reconnect is awaiting
\* getDocs
C36_ReconnectLoadPending ==
  /\ networkStatus
  /\ budget.loads >= 2
  /\ loads # <<>>
  /\ loads[Len(loads)].pc = "pending"
  /\ savedGames # <<>>

\* the commits the user has not deleted and the remote store does not hold
Unsynced ==
  {g \in committed \ userRemoved : \A d \in remote : d.gid # g}

\* C37: when a commit was kept local-only after its remote write failed and
\* the connection is back, with the load of the reconnect done, the commit
\* is eventually held by the remote store
C37_LocalOnlyEventuallySynced ==
  (/\ Unsynced # {}
   /\ networkStatus
   /\ saveOp.pc = "idle"
   /\ loads = <<>>
   /\ budget.loads > 1
   /\ syncStatus = "synced") ~> (Unsynced = {})

\* the step in which handleGameDelete, or handleGameUpdate, resumes
DeleteResumes == delOp.pc # "idle" /\ delOp'.pc = "idle"
UpdateResumes == updOp.pc # "idle" /\ updOp'.pc = "idle"

\* C38: when a delete resumes from its remote call, the list loses the
\* selected record and nothing else; when an update resumes, the selected
\* record is replaced and every other row is the row the list held just
\* before, whatever happened to the list while the call was in flight
C38_ExactlySelected ==
  [][/\ DeleteResumes =>
          savedGames' = SelectSeq(savedGames, LAMBDA g : g.id # delOp.id)
     /\ UpdateResumes =>
          /\ Len(savedGames') = Len(savedGames)
          /\ \A i \in 1..Len(savedGames) :
               savedGames[i].id # updOp.id => savedGames'[i] = savedGames[i]]_vars

\* the step in which Save Game, confirmed where it asks, makes a commit
Commits == nextGid' = nextGid + 1

\* C40: a commit made while the player name or the date is empty creates no
\* call to the remote store, so that nothing is attempted and nothing
\* retried: in the same step the record heads the list and the local copy
\* under a 'local_' id, the remote store is as it was and no save is in
\* flight; and no save in flight and no remote document lacks either field
C40_InvalidCommitStaysLocal ==
  /\ [](/\ saveOp.pc # "idle" =>
             saveOp.game.playerName # "" /\ saveOp.game.date # ""
        /\ \A d \in remote : d.playerName # "" /\ d.date # "")
  /\ [][(Commits /\ (playerName = "" \/ date = "")) =>
          /\ saveOp.pc = "idle"
          /\ UNCHANGED <<saveOp, storeVars>>
          /\ ~isSaving'
          /\ savedGames'[1].gid = nextGid
          /\ startsWithLocal(savedGames'[1].id)
          /\ Len(savedGames') = Len(savedGames) + 1
          /\ localStore' = [present |-> TRUE, games |-> savedGames']]_vars

\* two commits, one without a player name and one without a date, are both
\* in the list under local_ ids and the remote store is empty
C40_BothKeptLocal ==
  /\ Len(savedGames) = 2
  /\ \E i, j \in 1..2 :
       /\ savedGames[i].playerName = "" /\ savedGames[i].date # ""
       /\ savedGames[j].playerName # "" /\ savedGames[j].date = ""
  /\ \A i \in 1..2 : startsWithLocal(savedGames[i].id)
  /\ remote = {}
  /\ nextDoc = 1

\* the documents of the PINs other than the one of this GameStats
OtherPinDocs == {d \in remote : d.userPin # userPin}

\* C39: the list and the localStorage entry of this PIN hold only records
\* committed under it (stamped with it by the store, or never stored and
\* unstamped), and no step of this GameStats changes the documents a load
\* under another PIN returns
C39_ScopePartition ==
  /\ [](/\ \A i \in 1..Len(savedGames) :
             savedGames[i].userPin \in {NoPin, userPin}
        /\ \A i \in 1..Len(localStore.games) :
             localStore.games[i].userPin \in {NoPin, userPin})
  /\ [][OtherPinDocs' = OtherPinDocs]_vars

====
